---- MODULE Spec2Model ----
(***************************************************************************)
(* Model of the jobformer core: the job identity store (db.py), the URL    *)
(* canonicalizer (url_canon.py) and the text extraction engine             *)
(* (text_extraction.py) with its text cache (job_text_cache_db.py).        *)
(*                                                                         *)
(* Strings are modelled as sequences of tokens.  A token is either one     *)
(* reserved character (" ", "/", "?", ...), one percent-escape ("%20") or  *)
(* one word of unreserved characters ("http", "x.com", "utm_source").      *)
(***************************************************************************)
EXTENDS Integers, Sequences, FiniteSets, TLC

\* ---------------------------------------------------------------------------
\* Bounds
\* ---------------------------------------------------------------------------
MaxClock == 1      \* wall-clock seconds run from 0 to MaxClock
MaxCalls == 2      \* upsert_jobs calls per behaviour of the sequential store
MaxBatch == 2      \* postings per upsert_jobs call
MaxRuns == 1       \* extract_text_for_urls calls per behaviour
MaxOps == 3        \* calls of get_cdp_browser and invalidate_cdp_browser per behaviour
MaxJobs == 3       \* candidates score_recent_jobs submits to its pool
MaxScoreCalls == 2 \* upsert_score calls per behaviour

\* Python None, where a timestamp is expected
None == << >>

\* ---------------------------------------------------------------------------
\* String helpers (token sequences)
\* ---------------------------------------------------------------------------
\* a local variable: F applied to the value of e, e being evaluated once
With(e, F(_)) == CHOOSE r \in { F(v) : v \in {e} } : TRUE

\* str.lower() on one token
LowerTok(c) ==
    CASE c = "HTTP" -> "http"
      [] c = "X.COM" -> "x.com"
      [] c = "WWW.TANITJOBS.COM" -> "www.tanitjobs.com"
      [] c = "ANNONCES TROUV" -> "annonces trouv"
      [] c = "Offres Disponibles" -> "offres disponibles"
      [] c = "Backend" -> "backend"
      [] c = "QA" -> "qa"
      [] c = "%2B" -> "%2b" [] c = "%2F" -> "%2f" [] c = "%3A" -> "%3a"
      [] c = "%3B" -> "%3b" [] c = "%3D" -> "%3d" [] c = "%3F" -> "%3f"
      [] c \in {"Just a moment", "JUST A MOMENT"} -> "just a moment"
      [] c = "Verifying you are human" -> "verifying you are human"
      [] c = "Cloudflare" -> "cloudflare"
      [] c = "Access Denied" -> "access denied"
      [] c = "BLOCKED" -> "blocked"
      [] c = "CAPTCHA" -> "captcha"
      [] c = "Please Wait" -> "please wait"
      [] OTHER -> c

\* str.lower()
Lower(s0) == With(s0, LAMBDA s : [i \in 1..Len(s) |-> LowerTok(s[i])])

RECURSIVE LStrip(_)
\* str.lstrip(): drop leading whitespace
LStrip(s0) ==
    With(s0, LAMBDA s : IF s # << >> /\ Head(s) = " " THEN LStrip(Tail(s)) ELSE s)

RECURSIVE RStripCh(_, _)
\* str.rstrip(ch): drop every trailing ch
RStripCh(s0, ch) ==
    With(s0, LAMBDA s :
        IF s # << >> /\ s[Len(s)] = ch THEN RStripCh(SubSeq(s, 1, Len(s) - 1), ch) ELSE s)

\* str.strip(): drop leading and trailing whitespace
Strip(s) == RStripCh(LStrip(s), " ")

\* the elements of a sequence
Elems(q) == { q[i] : i \in 1..Len(q) }

\* `tok in s` for a one-token needle
Contains(s, tok) == \E i \in 1..Len(s) : s[i] = tok

\* ---------------------------------------------------------------------------
\* URL canonicalizer: url_canon.py
\* ---------------------------------------------------------------------------
\* Common tracking params we want to ignore for cache key stability.
DROP_PARAMS ==
    { <<"trk">>, <<"trackingId">>, <<"refId">>, <<"eBP">>, <<"alternateChannel">>,
      <<"lipi">>, <<"originalSubdomain">>, <<"utm_source">>, <<"utm_medium">>,
      <<"utm_campaign">>, <<"utm_term">>, <<"utm_content">>, <<"gclid">>, <<"fbclid">> }

\* words that may start a scheme (first character a letter, all scheme_chars)
AlphaWords ==
    {"http", "HTTP", "x.com", "X.COM", "a", "b", "trk", "fbclid", "www.tanitjobs.com", "weworkremotely.com"}

\* tokens made of scheme_chars only
SchemeToks == AlphaWords \cup {"1", "2", "+"}

\* schemes of uses_params and of uses_netloc that the alphabet can spell
UsesParams == { << >>, <<"http">> }
UsesNetloc == { << >>, <<"http">> }

\* code point order of the tokens (of their first differing character)
Rank(c) ==
    CASE c = " " -> 1 [] c = "#" -> 2 [] c = "%20" -> 3 [] c = "%23" -> 4 [] c = "%26" -> 5
      [] c = "%2B" -> 6 [] c = "%2F" -> 7 [] c = "%3A" -> 8 [] c = "%3B" -> 9 [] c = "%3D" -> 10
      [] c = "%3F" -> 11 [] c = "&" -> 12 [] c = "+" -> 13 [] c = "/" -> 14 [] c = "1" -> 15
      [] c = "2" -> 16 [] c = ":" -> 17 [] c = ";" -> 18 [] c = "=" -> 19 [] c = "?" -> 20
      [] c = "HTTP" -> 21 [] c = "X.COM" -> 22 [] c = "a" -> 23 [] c = "b" -> 24
      [] c = "fbclid" -> 25 [] c = "http" -> 26 [] c = "trk" -> 27 [] c = "utm_source" -> 28
      [] c = "weworkremotely.com" -> 29 [] c = "www.tanitjobs.com" -> 30 [] c = "x.com" -> 31
      [] OTHER -> 32

RECURSIVE StrLess(_, _)
\* s < t on strings
StrLess(s0, t0) ==
    With(s0, LAMBDA s : With(t0, LAMBDA t :
        IF t = << >> THEN FALSE
        ELSE IF s = << >> THEN TRUE
        ELSE IF Head(s) = Head(t) THEN StrLess(Tail(s), Tail(t))
        ELSE Rank(Head(s)) < Rank(Head(t))))

\* (k1, v1) <= (k2, v2) on tuples of strings
PairLeq(x, y) == IF x[1] = y[1] THEN (x[2] = y[2] \/ StrLess(x[2], y[2])) ELSE StrLess(x[1], y[1])

\* s.find(ch, start): the first index >= start holding ch, or 0
Find(s, ch, start) ==
    IF \E i \in start..Len(s) : s[i] = ch
    THEN CHOOSE i \in start..Len(s) : s[i] = ch /\ \A j \in start..(i - 1) : s[j] # ch
    ELSE 0

\* s.rfind(ch): the last index holding ch, or 0
RFind(s, ch) ==
    IF \E i \in 1..Len(s) : s[i] = ch
    THEN CHOOSE i \in 1..Len(s) : s[i] = ch /\ \A j \in (i + 1)..Len(s) : s[j] # ch
    ELSE 0

\* s.split(ch, 1): <<s>> when ch is absent, else <<before, after>>
Split1(s0, ch) ==
    With(s0, LAMBDA s : With(Find(s, ch, 1), LAMBDA i :
        IF i = 0 THEN <<s>> ELSE <<SubSeq(s, 1, i - 1), SubSeq(s, i + 1, Len(s))>>))

RECURSIVE SplitAll(_, _)
\* s.split(ch)
SplitAll(s0, ch) ==
    With(s0, LAMBDA s : With(Find(s, ch, 1), LAMBDA i :
        IF i = 0 THEN <<s>> ELSE <<SubSeq(s, 1, i - 1)>> \o SplitAll(SubSeq(s, i + 1, Len(s)), ch)))

\* _splitnetloc(url, 2)
splitnetloc(url) ==
    LET ends == { i \in 3..Len(url) : url[i] \in {"/", "?", "#"} }
        delim == IF ends = {} THEN Len(url) + 1 ELSE CHOOSE i \in ends : \A j \in ends : i <= j
    IN  [netloc |-> SubSeq(url, 3, delim - 1), url |-> SubSeq(url, delim, Len(url))]

\* urlsplit(url)
urlsplit(url0) ==
    With(LStrip(url0), LAMBDA url :
    With(Find(url, ":", 1), LAMBDA i :
    With(i > 1 /\ url[1] \in AlphaWords /\ \A j \in 1..(i - 1) : url[j] \in SchemeToks,
         LAMBDA hasScheme :
    With(IF hasScheme THEN SubSeq(url, i + 1, Len(url)) ELSE url, LAMBDA url1 :
    With(IF Len(url1) >= 2 /\ url1[1] = "/" /\ url1[2] = "/"
         THEN splitnetloc(url1) ELSE [netloc |-> << >>, url |-> url1], LAMBDA nl :
    With(Split1(nl.url, "#"), LAMBDA fr :
    With(Split1(fr[1], "?"), LAMBDA qr :
        [scheme |-> IF hasScheme THEN Lower(SubSeq(url, 1, i - 1)) ELSE << >>,
         netloc |-> nl.netloc, path |-> qr[1],
         query |-> IF Len(qr) = 2 THEN qr[2] ELSE << >>,
         fragment |-> IF Len(fr) = 2 THEN fr[2] ELSE << >>])))))))

\* _splitparams(url)
splitparams(url) ==
    LET i == IF Contains(url, "/") THEN Find(url, ";", RFind(url, "/")) ELSE Find(url, ";", 1)
    IN  IF i = 0 THEN <<url, << >> >> ELSE <<SubSeq(url, 1, i - 1), SubSeq(url, i + 1, Len(url))>>

\* urlparse(url)
urlparse(url) ==
    With(urlsplit(url), LAMBDA r :
    With(IF r.scheme \in UsesParams /\ Contains(r.path, ";")
         THEN splitparams(r.path) ELSE <<r.path, << >> >>, LAMBDA sp :
        [scheme |-> r.scheme, netloc |-> r.netloc, path |-> sp[1], params |-> sp[2],
         query |-> r.query, fragment |-> r.fragment]))

\* urlunsplit((scheme, netloc, url, query, fragment))
urlunsplit(scheme0, netloc0, url0, query0, fragment0) ==
    With(<<scheme0, netloc0, url0, query0, fragment0>>, LAMBDA t :
    LET scheme == t[1]
        netloc == t[2]
        url == t[3]
        query == t[4]
        fragment == t[5]
        u1 == IF netloc # << >> \/
                 (scheme # << >> /\ scheme \in UsesNetloc /\ ~(Len(url) >= 2 /\ url[1] = "/" /\ url[2] = "/"))
              THEN <<"/", "/">> \o netloc \o (IF url # << >> /\ url[1] # "/" THEN <<"/">> ELSE << >>) \o url
              ELSE url
        u2 == IF scheme # << >> THEN scheme \o <<":">> \o u1 ELSE u1
        u3 == IF query # << >> THEN u2 \o <<"?">> \o query ELSE u2
    IN  IF fragment # << >> THEN u3 \o <<"#">> \o fragment ELSE u3)

\* urlunparse((scheme, netloc, url, params, query, fragment))
urlunparse(scheme, netloc, url, params, query, fragment) ==
    With(params, LAMBDA ps :
        urlunsplit(scheme, netloc, IF ps # << >> THEN url \o <<";">> \o ps ELSE url, query, fragment))

\* unquote(tok.replace('+', ' ')) on one token
UnquoteTok(c) ==
    CASE c = "+" -> " " [] c = "%20" -> " " [] c = "%23" -> "#" [] c = "%26" -> "&"
      [] c = "%2B" -> "+" [] c = "%2F" -> "/" [] c = "%3A" -> ":" [] c = "%3B" -> ";"
      [] c = "%3D" -> "=" [] c = "%3F" -> "?"
      [] c = "%2b" -> "+" [] c = "%2f" -> "/" [] c = "%3a" -> ":" [] c = "%3b" -> ";"
      [] c = "%3d" -> "=" [] c = "%3f" -> "?" [] OTHER -> c

\* quote_plus on one token
QuoteTok(c) ==
    CASE c = " " -> "+" [] c = "#" -> "%23" [] c = "&" -> "%26" [] c = "+" -> "%2B"
      [] c = "/" -> "%2F" [] c = ":" -> "%3A" [] c = ";" -> "%3B" [] c = "=" -> "%3D"
      [] c = "?" -> "%3F" [] OTHER -> c

Unquote(s0) == With(s0, LAMBDA s : [i \in 1..Len(s) |-> UnquoteTok(s[i])])
QuotePlus(s0) == With(s0, LAMBDA s : [i \in 1..Len(s) |-> QuoteTok(s[i])])

RECURSIVE PairsOf(_)
\* the loop of parse_qsl over the '&'-separated fields, blank values kept
PairsOf(fields0) ==
    With(fields0, LAMBDA fields :
        IF fields = << >> THEN << >>
        ELSE With(Split1(Head(fields), "="), LAMBDA nv :
                 (IF Head(fields) = << >> THEN << >>
                  ELSE << <<Unquote(nv[1]), IF Len(nv) = 2 THEN Unquote(nv[2]) ELSE << >> >> >>)
                 \o PairsOf(Tail(fields))))

\* parse_qsl(qs, keep_blank_values=True)
parse_qsl(qs0) == With(qs0, LAMBDA qs : IF qs = << >> THEN << >> ELSE PairsOf(SplitAll(qs, "&")))

RECURSIVE Insert(_, _)
Insert(x0, sorted0) ==
    With(x0, LAMBDA x : With(sorted0, LAMBDA sorted :
        IF sorted = << >> THEN <<x>>
        ELSE IF PairLeq(x, Head(sorted)) THEN <<x>> \o sorted
        ELSE <<Head(sorted)>> \o Insert(x, Tail(sorted))))

RECURSIVE Sort(_)
\* q.sort()
Sort(q0) == With(q0, LAMBDA q : IF q = << >> THEN << >> ELSE Insert(Head(q), Sort(Tail(q))))

RECURSIVE urlencode(_)
\* urlencode(q, doseq=True)
urlencode(q0) ==
    With(q0, LAMBDA q :
        IF q = << >> THEN << >>
        ELSE QuotePlus(Head(q)[1]) \o <<"=">> \o QuotePlus(Head(q)[2])
             \o (IF Tail(q) = << >> THEN << >> ELSE <<"&">> \o urlencode(Tail(q))))

\* the pairs of q whose key is not in DROP_PARAMS
KeepParams(q0) == With(q0, LAMBDA q : SelectSeq(q, LAMBDA kv : kv[1] \notin DROP_PARAMS))

\* canonicalize_url(url)
canonicalize_url(url) ==
    IF url = << >> THEN << >>
    ELSE With(urlparse(Strip(url)), LAMBDA p :
             LET scheme == Lower(p.scheme)
                 netloc == Lower(p.netloc)
                 path == IF p.path # <<"/">> THEN RStripCh(p.path, "/") ELSE p.path
                 query == urlencode(Sort(KeepParams(parse_qsl(p.query))))
             IN  urlunparse(scheme, netloc, path, << >>, query, << >>))

\* ---------------------------------------------------------------------------
\* Job identity store: db.py
\* ---------------------------------------------------------------------------
Unknown == <<"(unknown)">>

\* datetime values carried by postings: <<seconds, microseconds>>
Job(source, external_id, title, company, location, url, posted_at) ==
    [source |-> source, external_id |-> external_id, title |-> title,
     company |-> company, location |-> location, url |-> url,
     posted_at |-> posted_at]

\* The postings the scrapers hand to the store in this model.
Postings ==
    { Job("keejob", "123", << >>, "", "", "u1", None),
      Job("keejob", "123", <<"Backend", " ", "Engineer">>, "Acme", "Tunis", "u2", <<1, 0>>),
      Job("keejob", "123", Unknown, "Bolt", "", "u1", <<2, 7>>),
      Job("keejob", "123", <<"12", " ", "ANNONCES TROUV", "ees">>, "", "Sfax", "u2", None),
      Job("keejob", "123", <<"QA">>, "Bolt", "Sfax", "u1", <<2, 0>>),
      Job("keejob", "123", <<" ">>, "", "", "u1", None),
      Job("keejob", "123", <<" ", "(unknown)">>, "Acme", "", "u2", None),
      Job("aneti", "123", <<"Offres Disponibles">>, "", "", "u3", None) }

RECURSIVE SeqsUpTo(_, _)
\* all sequences over S of length 0..n
SeqsUpTo(S, n) ==
    IF n = 0 THEN { << >> }
    ELSE LET shorter == SeqsUpTo(S, n - 1)
         IN shorter \cup { Append(q, x) : q \in { r \in shorter : Len(r) = n - 1 }, x \in S }

VARIABLES
    \* -- the job identity store
    jobs,        \* the jobs table: a set of rows
    clock,       \* the last wall-clock reading (seconds)
    calls,       \* number of upsert_jobs calls made so far
    arg_jobs,    \* the argument of the last upsert_jobs call
    now,         \* the timestamp the last call computed
    new_jobs,    \* the value the last call returned
    outcome,     \* "none" before any call, then "returned" or the exception raised
    log,         \* per posting of the last call: the row found before and left after
    \* -- two callers of upsert_jobs, each with its own connection to the store
    pc,          \* per caller: "idle", "loop", "done", "raised", then "read"
    todo,        \* per caller: the postings its loop has not processed yet
    given,       \* per caller: the argument of its call
    cnow,        \* per caller: the timestamp its call computed
    cnew,        \* per caller: its new_jobs so far
    view,        \* per caller: the table as its open transaction sees it
    lock,        \* the connection holding the store's write lock, or "none"
    seen,        \* per caller: the rows it read after its call ended
    \* -- the URL canonicalizer applied to a URL and to a decorated variant of it
    url,         \* the URL handed to canonicalize_url
    variant,     \* the same URL decorated differently, and the kind of decoration
    key,         \* canonicalize_url(url)
    vkey,        \* canonicalize_url(variant.url)
    rekey,       \* canonicalize_url(key)
    cpc,         \* "input", "keyed" (keys computed), "rekeyed" (key canonicalized again)
    \* -- the text extraction engine and its cache
    canon,       \* canonicalize_url of each raw URL, computed once
    hosts,       \* _host of each raw URL, computed once
    env_cdp_url, \* the CDP_URL environment variable of the process ("" when unset)
    cache,       \* the job_text_cache table: a set of rows
    runs,        \* number of extract_text_for_urls calls started
    xpc,         \* position in the call: "idle", "cdp_first", "http", "record", "fallback", "return", "done"
    xarg,        \* the arguments of the current call
    before,      \* the job_text_cache table as it was when the current call started
    urls,        \* the candidate URLs left after dedupe, budget and cache filter
    cdp_first_urls,   \* the candidates fetched through the browser first
    http_first_urls,  \* the candidates fetched over HTTP first
    loop_i,      \* index of the sequential loop in progress
    submitted,   \* number of HTTP fetches handed to the pool
    started,     \* number of HTTP fetches a pool worker has picked up
    running,     \* URLs whose HTTP fetch is in flight
    finished,    \* completed futures not yet taken by as_completed
    http_results,     \* the results in the order as_completed delivered them
    fallback_urls,    \* the HTTP failures to retry through the browser
    stats,       \* the counters of the current call
    ret,         \* the counters the last call returned 
    net,         \* the network and browser requests made by the current call
    faults,      \* the fetches of the current call during which an exception was raised
    pending,     \* the result _record has written to the cache and not counted yet, or None
    trace,       \* what the thread of the current call did, in order: browser fetches, cache writes, sleeps, submissions
    \* -- _classify_text applied to a page text
    page_text,   \* the text handed to _classify_text
    page_status, \* "none", then the status _classify_text returned
    \* -- the browser session manager (cdp_session.py) and the threads calling it
    BROWSER,     \* _BROWSER: the session held (its number), 0 for None
    CDP_URL,     \* _CDP_URL: the endpoint of the session held, "" for None
    LOCK,        \* _LOCK: the thread holding it, or "none"
    sessions,    \* the sessions ever connected, by number: endpoint and state
    spc,         \* per thread: "idle", "lock", "check", "connect", "connecting", "close", "done"
    sarg,        \* per thread: the call it makes (op, cdp_url)
    attempt,     \* per thread: the attempt of the retry loop of get_cdp_browser
    sres,        \* per thread: the value its last get_cdp_browser call returned
    connects,    \* per thread: the connect attempts of its current or last call
    ops,         \* number of calls made
    last,        \* the call that returned last: op, cdp_url, session returned
    snap,        \* per thread: last, and the number of sessions, when its call was made
    alone,       \* per thread: no other thread was inside a call during its call
    slept,       \* per thread: the time.sleep calls of its current or last call, in units of backoff_s
    sexc,        \* per thread: the exception its last call raised, or "none"
    \* -- the scoring pool (job_scoring.py) and the fetchers that use the browser session
    sem,         \* per fetcher module: the worker holding its _CDP_SEM, or "none"
    wpc,         \* per worker: "idle", "http", "wait", "get", "nav", "done"
    wurl,        \* per worker: the site of the URL of its candidate
    wfetcher,    \* per worker: the browser fetcher it is in, or "none"
    wtry,        \* per worker: the attempt of the fetcher's loop
    queue,       \* the candidates submitted to the pool and not taken yet
    \* -- the score store (job_scores_db.py)
    scores,      \* the job_scores table: a set of rows
    score_calls, \* number of upsert_score calls made
    score_arg,   \* the arguments of the last upsert_score call and the time it read
    first_scored, \* per URL: the time of the first upsert_score call for it, -1 if none
    \* -- _fetch_cdp called by the engine's thread, down to the session manager
    fpc,         \* "idle", "get", "setup", "page", "invalidate", "returned"
    fsite,       \* the site of the URL being fetched: "tanit" or "other"
    ftry,        \* the attempt of the loop of fetch_tanitjobs_page_text
    fops,        \* the number of session manager calls made when the fetcher reached its position
    caught,      \* an exception was caught on the session since the last get_cdp_browser call returned
    fres,        \* what _fetch_cdp returned: "none", "text", "empty", "error"
    \* -- _fetch_http applied to one answer of a server
    http_resp,   \* the answer to the GET: an exception, or a status code and a body
    http_res     \* None, then the TextFetchResult _fetch_http returned

dbVars == <<jobs, clock, calls, arg_jobs, now, new_jobs, outcome, log>>

connVars == <<pc, todo, given, cnow, cnew, view, lock, seen>>

canonVars == <<url, variant, key, vkey, rekey, cpc>>

exVars == <<canon, hosts, env_cdp_url, cache, runs, xpc, xarg, before, urls, cdp_first_urls, http_first_urls, loop_i, submitted,
            started, running, finished, http_results, fallback_urls, stats, ret, net, faults, pending, trace>>

clsVars == <<page_text, page_status>>

\* the variables of the components modelled after the extraction engine
sessVars == <<BROWSER, CDP_URL, LOCK, sessions, spc, sarg, attempt, sres, connects, ops, last, snap, alone,
              slept, sexc>>

navVars == <<sem, wpc, wurl, wfetcher, wtry, queue>>

scoreVars == <<scores, score_calls, score_arg, first_scored>>

fetchVars == <<fpc, fsite, ftry, fops, caught, fres>>

httpVars == <<http_resp, http_res>>

restVars == <<clsVars, sessVars, navVars, scoreVars, fetchVars, httpVars>>

\* the variables that the operations of one of these components leave alone
notCls == <<sessVars, navVars, scoreVars, fetchVars, httpVars>>

notSess == <<clsVars, navVars, scoreVars, fetchVars, httpVars>>

notNav == <<clsVars, sessVars, scoreVars, fetchVars, httpVars>>

notScore == <<clsVars, sessVars, navVars, fetchVars, httpVars>>

notFetch == <<clsVars, navVars, scoreVars, httpVars>>

notHttp == <<clsVars, sessVars, navVars, scoreVars, fetchVars>>

vars == <<dbVars, connVars, canonVars, exVars, restVars>>

\* job.posted_at.isoformat(timespec="seconds") + "Z" if job.posted_at else None
IsoSeconds(posted_at) == IF posted_at = None THEN None ELSE <<posted_at[1]>>

SameKey(row, job) == row.source = job.source /\ row.external_id = job.external_id

\* the INSERT of a table that has no unique index
InsertException_NoIndex(t, job) == "none"

\* ux_jobs_source_external_id: the INSERT fails when the key is already stored
InsertException(t, job) ==
    IF \E row \in t : SameKey(row, job) THEN "IntegrityError" ELSE "none"

\* an INSERT that is not wrapped in try/except
Handles_Nothing(exc) == FALSE

\* except sqlite3.IntegrityError
Handles(exc) == exc = "IntegrityError"

\* id INTEGER PRIMARY KEY AUTOINCREMENT
NextId(t) == IF t = {} THEN 1 ELSE 1 + (CHOOSE m \in { r.id : r \in t } : \A r \in t : r.id <= m)

\* the row written by INSERT INTO jobs (...) VALUES (...)
InsertRow(t, job, posted_at, nw) ==
    [id |-> NextId(t), source |-> job.source, external_id |-> job.external_id,
     title |-> job.title, company |-> job.company, location |-> job.location,
     url |-> job.url, posted_at |-> posted_at,
     first_seen_at |-> nw, last_seen_at |-> nw]

\* a bad_title that treats every stored title as a placeholder
BadTitle_Always(existing_title) == TRUE

\* bad_title
BadTitle(existing_title) ==
    \/ Strip(existing_title) \in { << >>, Unknown }
    \/ Contains(Lower(existing_title), "annonces trouv")
    \/ Contains(Lower(existing_title), "offres et demandes")
    \/ Contains(Lower(existing_title), "offres disponibles")

\* a set_title that forgets the `!= "(unknown)"` test on the incoming title
SetTitle_NoSentinelTest(existing_title, new_title) ==
    IF BadTitle(existing_title) /\ new_title # << >> THEN new_title ELSE existing_title

\* set_title
SetTitle(existing_title, new_title) ==
    IF BadTitle(existing_title) /\ new_title # << >> /\ new_title # Unknown
    THEN new_title ELSE existing_title

\* set_posted_at
SetPostedAt(existing_posted_at, posted_at) ==
    IF existing_posted_at = None /\ posted_at # None THEN posted_at ELSE existing_posted_at

\* a merge that takes the latest non-empty value instead of the first
CaseWhenEmpty_LatestWins(stored, incoming) == IF incoming # "" THEN incoming ELSE stored

\* CASE WHEN col = '' THEN ? ELSE col END
CaseWhenEmpty(stored, incoming) == IF stored = "" THEN incoming ELSE stored

\* an UPDATE that leaves last_seen_at alone
UpdateRow_KeepLastSeen(row, job, posted_at, nw) ==
    [row EXCEPT !.title = SetTitle(row.title, job.title),
                !.company = CaseWhenEmpty(row.company, job.company),
                !.location = CaseWhenEmpty(row.location, job.location),
                !.url = job.url,
                !.posted_at = SetPostedAt(row.posted_at, posted_at)]

\* an UPDATE that refreshes first_seen_at where it should refresh last_seen_at
UpdateRow_WrongColumn(row, job, posted_at, nw) ==
    [row EXCEPT !.first_seen_at = nw,
                !.title = SetTitle(row.title, job.title),
                !.company = CaseWhenEmpty(row.company, job.company),
                !.location = CaseWhenEmpty(row.location, job.location),
                !.url = job.url,
                !.posted_at = SetPostedAt(row.posted_at, posted_at)]

\* an UPDATE that fills url only while it is empty, as it does company and location
UpdateRow_KeepUrl(row, job, posted_at, nw) ==
    [row EXCEPT !.last_seen_at = nw,
                !.title = SetTitle(row.title, job.title),
                !.company = CaseWhenEmpty(row.company, job.company),
                !.location = CaseWhenEmpty(row.location, job.location),
                !.url = CaseWhenEmpty(row.url, job.url),
                !.posted_at = SetPostedAt(row.posted_at, posted_at)]

\* the row left by UPDATE jobs SET ... WHERE source = ? AND external_id = ?
UpdateRow(row, job, posted_at, nw) ==
    [row EXCEPT !.last_seen_at = nw,
                !.title = SetTitle(row.title, job.title),
                !.company = CaseWhenEmpty(row.company, job.company),
                !.location = CaseWhenEmpty(row.location, job.location),
                !.url = job.url,
                !.posted_at = SetPostedAt(row.posted_at, posted_at)]

\* One iteration of `for job in jobs`: the table afterwards, whether the
\* posting was appended to new_jobs, and the exception that escapes (if any).
UpsertOne(t, job, nw) ==
    LET posted_at == IsoSeconds(job.posted_at)
        exc == InsertException(t, job)
    IN  IF exc = "none"
        THEN [table |-> t \cup { InsertRow(t, job, posted_at, nw) }, inserted |-> TRUE, raised |-> "none"]
        ELSE IF Handles(exc)
        THEN [table |-> { IF SameKey(row, job) THEN UpdateRow(row, job, posted_at, nw) ELSE row : row \in t },
              inserted |-> FALSE, raised |-> "none"]
        ELSE [table |-> t, inserted |-> FALSE, raised |-> exc]

\* the rows stored under the key of `job`
RowsOf(t, job) == { row \in t : SameKey(row, job) }

RECURSIVE RunBatch(_, _, _, _, _)
\* The loop of upsert_jobs over the postings js[i..], from table t.
RunBatch(t, js, i, nw, acc) ==
    IF i > Len(js) THEN [table |-> t, new_jobs |-> acc.new_jobs, log |-> acc.log, raised |-> "none"]
    ELSE LET step == UpsertOne(t, js[i], nw)
             entry == [job |-> js[i], before |-> RowsOf(t, js[i]), after |-> RowsOf(step.table, js[i])]
             acc2 == [new_jobs |-> IF step.inserted THEN Append(acc.new_jobs, js[i]) ELSE acc.new_jobs,
                      log |-> Append(acc.log, entry)]
         IN  IF step.raised # "none"
             THEN [table |-> step.table, new_jobs |-> acc2.new_jobs, log |-> acc2.log, raised |-> step.raised]
             ELSE RunBatch(step.table, js, i + 1, nw, acc2)


\* ---------------------------------------------------------------------------
\* Concurrent callers of upsert_jobs: db.py with one connection per caller
\* ---------------------------------------------------------------------------
Callers == {"A", "B"}

\* The postings handed to the concurrent callers.
ConcPostings ==
    { Job("keejob", "123", << >>, "", "", "u1", None),
      Job("keejob", "123", <<"QA">>, "Bolt", "Sfax", "u1", <<2, 0>>),
      Job("aneti", "123", <<"Offres Disponibles">>, "", "", "u3", None) }

InitConn ==
    /\ pc = [c \in Callers |-> "idle"]
    /\ todo = [c \in Callers |-> << >>]
    /\ given = [c \in Callers |-> << >>]
    /\ cnow = [c \in Callers |-> 0]
    /\ cnew = [c \in Callers |-> << >>]
    /\ view = [c \in Callers |-> {}]
    /\ lock = "none"
    /\ seen = [c \in Callers |-> [rows |-> {}, was |-> "none"]]

\* upsert_jobs is entered: now is computed and the cursor opened
Begin(c, js, nw) ==
    /\ pc[c] = "idle"
    /\ pc' = [pc EXCEPT ![c] = "loop"]
    /\ todo' = [todo EXCEPT ![c] = js]
    /\ given' = [given EXCEPT ![c] = js]
    /\ cnow' = [cnow EXCEPT ![c] = nw]
    /\ clock' = nw
    /\ UNCHANGED <<canonVars, restVars, exVars, jobs, calls, arg_jobs, now, new_jobs, outcome, log, cnew, view, lock, seen>>

\* One iteration of the loop.  The first write of the transaction takes the
\* store's write lock, which the connection keeps until it commits.
Step(c) ==
    /\ pc[c] = "loop"
    /\ todo[c] # << >>
    /\ lock \in {"none", c}
    /\ LET t == IF lock = c THEN view[c] ELSE jobs
           res == UpsertOne(t, Head(todo[c]), cnow[c])
       IN  /\ view' = [view EXCEPT ![c] = res.table]
           /\ cnew' = [cnew EXCEPT ![c] = IF res.inserted THEN Append(@, Head(todo[c])) ELSE @]
           /\ pc' = [pc EXCEPT ![c] = IF res.raised = "none" THEN "loop" ELSE "raised"]
           /\ lock' = IF res.raised = "none" THEN c ELSE "none"
    /\ todo' = [todo EXCEPT ![c] = Tail(@)]
    /\ UNCHANGED <<canonVars, restVars, exVars, dbVars, given, cnow, seen>>

\* The write lock stays with the other connection for longer than the busy
\* timeout of sqlite3.connect: the INSERT raises OperationalError, which the
\* except clause does not catch.
BusyTimeout(c) ==
    /\ pc[c] = "loop"
    /\ todo[c] # << >>
    /\ lock \notin {"none", c}
    /\ ~Handles("OperationalError")
    /\ pc' = [pc EXCEPT ![c] = "raised"]
    /\ UNCHANGED <<canonVars, restVars, exVars, dbVars, todo, given, cnow, cnew, view, lock, seen>>

\* self.conn.commit(); return new_jobs
Commit(c) ==
    /\ pc[c] = "loop"
    /\ todo[c] = << >>
    /\ jobs' = IF lock = c THEN view[c] ELSE jobs
    /\ lock' = IF lock = c THEN "none" ELSE lock
    /\ pc' = [pc EXCEPT ![c] = "done"]
    /\ UNCHANGED <<canonVars, restVars, exVars, clock, calls, arg_jobs, now, new_jobs, outcome, log, todo, given, cnow, cnew, view, seen>>

\* After both calls have ended, a caller reads the table.
Read(c) ==
    /\ pc[c] \in {"done", "raised"}
    /\ \A d \in Callers : pc[d] \in {"done", "raised", "read"}
    /\ seen' = [seen EXCEPT ![c] = [rows |-> jobs, was |-> pc[c]]]
    /\ pc' = [pc EXCEPT ![c] = "read"]
    /\ UNCHANGED <<canonVars, restVars, exVars, dbVars, todo, given, cnow, cnew, view, lock>>

InitDB ==
    /\ jobs = {}
    /\ clock = 0
    /\ calls = 0
    /\ arg_jobs = << >>
    /\ now = 0
    /\ new_jobs = << >>
    /\ outcome = "none"
    /\ log = << >>

\* JobDB.upsert_jobs(js), called when the wall clock reads nw
upsert_jobs(js, nw) ==
    /\ calls < MaxCalls
    /\ LET run == RunBatch(jobs, js, 1, nw, [new_jobs |-> << >>, log |-> << >>])
       IN  /\ jobs' = run.table
           /\ new_jobs' = run.new_jobs
           /\ log' = run.log
           /\ outcome' = IF run.raised = "none" THEN "returned" ELSE run.raised
    /\ clock' = nw
    /\ now' = nw
    /\ calls' = calls + 1
    /\ arg_jobs' = js
    /\ UNCHANGED <<connVars, canonVars, restVars, exVars>>

UpsertCall == \E js \in SeqsUpTo(Postings, MaxBatch) : \E nw \in clock..MaxClock : upsert_jobs(js, nw)

\* ---------------------------------------------------------------------------
\* The URLs handed to the canonicalizer
\* ---------------------------------------------------------------------------
Schemes == { <<"http">>, <<"HTTP">> }
Hosts == { <<"x.com">>, <<"X.COM">> }
Paths ==
    { << >>, <<"/">>, <<"/", "a">>, <<"/", "a", "/">>, <<"/", "a", "/", "b">>,
      <<"/", "a", ";", "b">>, <<"/", "a", ";", "b", "/">> }
\* query strings as lists of raw <<name, value>> fields
Queries ==
    { << >>,
      << <<<<"b">>, <<"1">>>> >>,
      << <<<<"b">>, <<"2">>>>, <<<<"a">>, <<"1">>>> >>,
      << <<<<"utm_source">>, <<"x.com">>>>, <<<<"b">>, <<"1">>>> >>,
      << <<<<"b">>, <<"1", "%20", "2">>>>, <<<<"trk">>, <<"1">>>>, <<<<"b">>, << >>>> >>,
      << <<<<"fbclid">>, <<"2">>>> >> }
Fragments == { << >>, <<"a">> }

RECURSIVE JoinFields(_)
JoinFields(q) ==
    IF q = << >> THEN << >>
    ELSE Head(q)[1] \o <<"=">> \o Head(q)[2]
         \o (IF Tail(q) = << >> THEN << >> ELSE <<"&">> \o JoinFields(Tail(q)))

\* the URL text of the parts
Build(c) ==
    c.scheme \o <<":", "/", "/">> \o c.host \o c.path
    \o (IF c.query = << >> THEN << >> ELSE <<"?">> \o JoinFields(c.query))
    \o (IF c.fragment = << >> THEN << >> ELSE <<"#">> \o c.fragment)

UrlParts == [scheme : Schemes, host : Hosts, path : Paths, query : Queries, fragment : Fragments]

Reverse(q) == [i \in 1..Len(q) |-> q[Len(q) + 1 - i]]

Kinds == {"tracking", "fragment", "case", "order", "slash"}

\* the parts of c decorated in one way that leaves the posting the same
Vary(c, kind) ==
    CASE kind = "tracking" -> [c EXCEPT !.query = Append(@, <<<<"utm_source">>, <<"2">>>>)]
      [] kind = "fragment" -> [c EXCEPT !.fragment = IF @ = << >> THEN <<"b">> ELSE << >>]
      [] kind = "case" -> [c EXCEPT !.scheme = IF @ = <<"http">> THEN <<"HTTP">> ELSE <<"http">>,
                                    !.host = IF @ = <<"x.com">> THEN <<"X.COM">> ELSE <<"x.com">>]
      [] kind = "order" -> [c EXCEPT !.query = Reverse(@)]
      [] kind = "slash" -> [c EXCEPT !.path = Append(@, "/")]

\* the decoration applies: a trailing slash is added to non-root paths only
Applies(c, kind) ==
    kind = "slash" => (c.path \notin { << >>, <<"/">> } /\ c.path[Len(c.path)] # "/")

InitCanonIdle ==
    /\ url = << >>
    /\ variant = [url |-> << >>, kind |-> "none", parts |-> << >>]
    /\ key = << >>
    /\ vkey = << >>
    /\ rekey = << >>
    /\ cpc = "idle"

InitCanon ==
    /\ \E c \in UrlParts : \E kind \in Kinds :
          /\ Applies(c, kind)
          /\ url = Build(c)
          /\ variant = [url |-> Build(Vary(c, kind)), kind |-> kind, parts |-> c]
    /\ key = << >>
    /\ vkey = << >>
    /\ rekey = << >>
    /\ cpc = "input"

\* the cache key of the URL and of its variant
Canonicalize ==
    /\ cpc = "input"
    /\ key' = canonicalize_url(url)
    /\ vkey' = canonicalize_url(variant.url)
    /\ cpc' = "keyed"
    /\ UNCHANGED <<dbVars, connVars, restVars, exVars, url, variant, rekey>>

\* the cache key of a cache key
Recanonicalize ==
    /\ cpc = "keyed"
    /\ rekey' = canonicalize_url(key)
    /\ cpc' = "rekeyed"
    /\ UNCHANGED <<dbVars, connVars, restVars, exVars, url, variant, key, vkey>>

\* ---------------------------------------------------------------------------
\* Claims about the URL canonicalizer
\* ---------------------------------------------------------------------------
\* C8: canonicalize_url(canonicalize_url(u)) = canonicalize_url(u) for every u.
C8_Idempotent == cpc = "rekeyed" => rekey = key

\* the <<name, value>> pairs of the query string of a URL
QueryPairs(u) == LET q == parse_qsl(urlsplit(u).query) IN { q[i] : i \in 1..Len(q) }

\* C9: a URL and a variant of it that differs only in tracking parameters, in
\* the fragment, in the case of scheme and host, in the order of the query
\* parameters or in a trailing slash on a non-root path have the same key; the
\* key holds no deny-listed parameter and every other query pair of the URL.
C9_VariantsShareKey ==
    cpc \in {"keyed", "rekeyed"} =>
        /\ key = vkey
        /\ \A i \in 1..Len(key) : <<key[i]>> \notin DROP_PARAMS
        /\ \A i \in 1..Len(variant.parts.query) :
              LET f == variant.parts.query[i]
              IN  Unquote(f[1]) \notin DROP_PARAMS => <<Unquote(f[1]), Unquote(f[2])>> \in QueryPairs(key)

\* ---------------------------------------------------------------------------
\* Claims about the job identity store
\* ---------------------------------------------------------------------------
RECURSIVE AbsentWhenProcessed(_, _)
\* the postings of the last call whose key had no row when they were processed
AbsentWhenProcessed(lg, i) ==
    IF i > Len(lg) THEN << >>
    ELSE (IF lg[i].before = {} THEN <<lg[i].job>> ELSE << >>) \o AbsentWhenProcessed(lg, i + 1)

\* C1: upsert_jobs returns exactly the postings whose (source, external_id)
\* had no row when the posting was processed, in input order; a posting whose
\* key exists is updated in place and no error reaches the caller.
C1_NewRecordDetection ==
    calls > 0 =>
        /\ outcome = "returned"
        /\ Len(log) = Len(arg_jobs)
        /\ \A i \in 1..Len(log) :
              /\ log[i].job = arg_jobs[i]
              /\ Cardinality(log[i].after) = 1
              /\ log[i].before # {} => \A b \in log[i].before : \A a \in log[i].after : a.id = b.id
        /\ new_jobs = AbsentWhenProcessed(log, 1)

\* upsert([p1, p2]) with p1 brand-new and p2 stored by an earlier call returned [p1]
C1_Witness ==
    /\ calls = 2
    /\ Len(arg_jobs) = 2
    /\ ~SameKey(arg_jobs[1], arg_jobs[2])
    /\ log[1].before = {}
    /\ log[2].before # {}
    /\ new_jobs = <<arg_jobs[1]>>

\* C2: a posting whose key was already stored leaves exactly one row for the
\* key, with first_seen_at as it was and last_seen_at equal to the time of
\* the call that saw it again.
C2_UpsertIdempotence ==
    \A i \in 1..Len(log) :
        log[i].before # {} =>
            /\ Cardinality(RowsOf(jobs, log[i].job)) = 1
            /\ \A b \in log[i].before : \A r \in RowsOf(jobs, log[i].job) :
                  /\ r.id = b.id
                  /\ r.first_seen_at = b.first_seen_at
                  /\ r.last_seen_at = now
                  /\ r.last_seen_at >= b.last_seen_at

\* the same posting was upserted by two successive calls, the second one later
C2_Witness ==
    /\ calls = 2
    /\ Len(arg_jobs) = 1
    /\ \E b \in log[1].before : \E r \in jobs :
          /\ b.title = arg_jobs[1].title /\ b.url = arg_jobs[1].url
          /\ b.company = arg_jobs[1].company /\ b.location = arg_jobs[1].location
          /\ b.first_seen_at = b.last_seen_at
          /\ r.id = b.id
          /\ r.first_seen_at = b.first_seen_at
          /\ r.last_seen_at > b.last_seen_at

\* a title that is non-empty after trimming, is not the placeholder and
\* contains none of the known-garbage patterns
GoodTitle(title) ==
    /\ Strip(title) # << >>
    /\ Strip(title) # Unknown
    /\ \A i \in 1..Len(title) :
          LowerTok(title[i]) \notin {"annonces trouv", "offres et demandes", "offres disponibles"}

\* C3: once the stored title of a record is good, no upsert changes it.
C3_TitleHealingMonotone ==
    [][ \A r \in jobs : GoodTitle(r.title) =>
            \E r2 \in jobs' : r2.id = r.id /\ r2.title = r.title ]_vars

\* a good stored title met an empty, a placeholder and a different real title
C3_Witness ==
    /\ Len(log) = 2
    /\ \E b \in log[1].before : \E a \in log[2].after :
          /\ GoodTitle(b.title)
          /\ log[1].job.title \in { << >>, Unknown }
          /\ GoodTitle(log[2].job.title)
          /\ SameKey(log[1].job, log[2].job)
          /\ log[2].job.title # b.title
          /\ a.title = b.title

\* C4: on a key conflict the stored title is replaced by the incoming one
\* exactly when the stored title is empty (after trimming), the placeholder or
\* garbage and the incoming title is non-empty and not the placeholder.
C4_TitleHealingRule ==
    \A i \in 1..Len(log) : \A b \in log[i].before : \A a \in log[i].after :
        a.title = IF ~GoodTitle(b.title) /\ log[i].job.title # << >> /\ log[i].job.title # Unknown
                  THEN log[i].job.title
                  ELSE b.title

\* a placeholder title was healed, and another one was kept against a placeholder
C4_Witness ==
    /\ Len(log) = 2
    /\ \E b \in log[1].before : \E a \in log[1].after : \E a2 \in log[2].after :
          /\ ~GoodTitle(b.title)
          /\ log[1].job.title = Unknown
          /\ a.title = b.title
          /\ SameKey(log[1].job, log[2].job)
          /\ a2.title = log[2].job.title
          /\ a2.title # b.title

\* C5: company, location and posted_at keep their first non-empty value; an
\* empty (null) stored value takes the value of the incoming posting.
C5_FirstNonEmptyWins ==
    \A i \in 1..Len(log) : \A b \in log[i].before : \A a \in log[i].after :
        /\ a.company = IF b.company # "" THEN b.company ELSE log[i].job.company
        /\ a.location = IF b.location # "" THEN b.location ELSE log[i].job.location
        /\ a.posted_at = IF b.posted_at # None THEN b.posted_at ELSE IsoSeconds(log[i].job.posted_at)

\* a stored company and posted_at survived a sighting carrying other values,
\* and an empty location was filled
C5_Witness ==
    \E i \in 1..Len(log) : \E b \in log[i].before : \E a \in log[i].after :
        /\ b.company # "" /\ log[i].job.company \notin {"", b.company} /\ a.company = b.company
        /\ b.posted_at # None /\ log[i].job.posted_at # None
        /\ IsoSeconds(log[i].job.posted_at) # b.posted_at /\ a.posted_at = b.posted_at
        /\ b.location = "" /\ a.location # ""

\* C6: every stored record has first_seen_at <= last_seen_at, and a record
\* that was stored is never removed.
C6_RecordInvariant ==
    /\ [](\A r \in jobs : r.first_seen_at <= r.last_seen_at)
    /\ [][ \A r \in jobs : \E r2 \in jobs' : r2.id = r.id /\ SameKey(r2, r) ]_vars

\* a record seen again at a later time, next to a record of another key
C6_Witness ==
    /\ calls = 2
    /\ \E r \in jobs : r.first_seen_at < r.last_seen_at
    /\ Cardinality(jobs) = 2



\* ---------------------------------------------------------------------------
\* Claims about concurrent callers of the job identity store
\* ---------------------------------------------------------------------------
\* the postings of caller A whose key caller B was given too
SharedPostings == { p \in Elems(given["A"]) : \E q \in Elems(given["B"]) : SameKey(p, q) }

BothEnded == \A c \in Callers : pc[c] = "read"

\* one row for the key of p, and both callers read it
OneRowReadByBoth(p) ==
    /\ Cardinality(RowsOf(jobs, p)) = 1
    /\ \A c \in Callers : RowsOf(seen[c].rows, p) = RowsOf(jobs, p)

\* C7 as stated: under every interleaving of two calls that upsert the same
\* key, the store ends with one row for the key, both calls complete and both
\* callers can read the row.
C7_BothCallsComplete ==
    (BothEnded /\ SharedPostings # {}) =>
        /\ \A p \in SharedPostings : OneRowReadByBoth(p)
        /\ \A c \in Callers : seen[c].was = "done"

\* C7 amended: the store ends with one row for the key, which both callers can
\* read; at least one call completes, and a call that does not complete raised
\* on its first write, before it changed anything.
C7_OneRowReachableByBoth ==
    (BothEnded /\ SharedPostings # {}) =>
        /\ \A p \in SharedPostings : OneRowReadByBoth(p)
        /\ \E c \in Callers : seen[c].was = "done"
        /\ \A c \in Callers : seen[c].was = "raised" => (cnew[c] = << >> /\ todo[c] = given[c])
        /\ lock = "none"

\* both calls completed on the same key: one inserted the row, the other
\* found it and updated it
C7_Witness ==
    /\ BothEnded
    /\ SharedPostings # {}
    /\ \A c \in Callers : seen[c].was = "done"
    /\ \E p \in SharedPostings : p \in Elems(cnew["A"]) /\ \A q \in Elems(cnew["B"]) : ~SameKey(p, q)
    /\ \E r \in jobs : r.first_seen_at # r.last_seen_at

\* ---------------------------------------------------------------------------
\* Text cache: job_text_cache_db.py
\* ---------------------------------------------------------------------------
\* The row of `url_canon` ({} when there is none).
CacheRows(t, url_canon) == { row \in t : row.url_canon = url_canon }

\* get_many(url_canons): the rows of the non-empty keys asked for
get_many(t, url_canons) ==
    { row \in t : \E i \in 1..Len(url_canons) : url_canons[i] # << >> /\ row.url_canon = url_canons[i] }

\* the INSERT of a table that has no primary key: the row is added beside the old one
CacheUpsert_Append(t, url_canon, res, nw) ==
    t \cup { [url_canon |-> url_canon, url |-> res.url, text |-> res.text, method |-> res.method,
              fetched_at |-> nw, status |-> res.status, error |-> res.error] }

\* JobTextCacheDB.upsert: INSERT, and on a primary key conflict UPDATE in place
CacheUpsert(t, url_canon, res, nw) ==
    LET row == [url_canon |-> url_canon, url |-> res.url, text |-> res.text, method |-> res.method,
                fetched_at |-> nw, status |-> res.status, error |-> res.error]
    IN  IF CacheRows(t, url_canon) = {}
        THEN t \cup { row }
        ELSE { IF r.url_canon = url_canon THEN row ELSE r : r \in t }

\* ---------------------------------------------------------------------------
\* Text extraction engine: text_extraction.py
\* ---------------------------------------------------------------------------
MinTextLen == 200

\* page texts: their length and the phrase in them that may be a challenge marker,
\* written as the page writes it ("" when the text holds no such phrase)
NoText == [len |-> 0, marker |-> ""]
ShortText == [len |-> 199, marker |-> ""]
LongText == [len |-> 200, marker |-> ""]
ChallengeText == [len |-> 300, marker |-> "Just a moment"]

blocked_markers ==
    {"just a moment", "verifying you are human", "cloudflare", "access denied", "blocked", "captcha"}

\* the markers looked for in the text as it is, without lowering it
is_blocked_text_CaseSensitive(text) == text.len > 0 /\ text.marker \in blocked_markers

\* _is_blocked_text
is_blocked_text(text) == text.len > 0 /\ LowerTok(text.marker) \in blocked_markers

\* _classify_text
classify_text(text) ==
    IF is_blocked_text(text) THEN "blocked"
    ELSE IF text.len = 0 \/ text.len < MinTextLen THEN "empty"
    ELSE "ok"

\* the number of characters of each marker
MarkerLen ==
    [m \in blocked_markers \cup {"please wait"} |->
        CASE m \in {"blocked", "captcha"} -> 7
          [] m = "cloudflare" -> 10
          [] m = "please wait" -> 11
          [] m \in {"just a moment", "access denied"} -> 13
          [] OTHER -> 23]

\* the phrases a page text may hold: the markers in several casings, and a phrase
\* that is no marker
Phrases ==
    {"just a moment", "Just a moment", "JUST A MOMENT", "Verifying you are human",
     "cloudflare", "Cloudflare", "Access Denied", "blocked", "BLOCKED", "captcha", "CAPTCHA",
     "Please Wait"}

\* max_chars of the fetchers: the longest text they hand to _classify_text
MaxChars == 8000

\* the texts handed to _classify_text: a text holding a phrase is at least as long as it
Texts ==
    { t \in [len : {0, 1, 7, 13, 23, 199, 200, 201, MaxChars}, marker : {""} \cup Phrases] :
        t.marker # "" => t.len >= MarkerLen[LowerTok(t.marker)] }

\* _classify_text not called yet
ClsIdle == page_text = NoText /\ page_status = "none"

InitCls == page_text \in Texts /\ page_status = "none"

\* status = _classify_text(text)
Classify ==
    /\ page_status = "none"
    /\ page_status' = classify_text(page_text)
    /\ UNCHANGED <<dbVars, connVars, canonVars, exVars, page_text, notCls>>

\* ---------------------------------------------------------------------------
\* Browser session manager: cdp_session.py
\* ---------------------------------------------------------------------------
Threads == {"t1", "t2"}

\* the cdp_url values handed to get_cdp_browser; "" is falsy
Endpoints == {"", "cdp", "cdp2"}

\* the retries and raise_on_fail the callers pass: retries=3 (the default) without
\* raise_on_fail in the page fetchers, retries=2 with raise_on_fail=True in the
\* aneti and tanitjobs scrapers
CallProfiles ==
    { [retries |-> 3, raise_on_fail |-> FALSE], [retries |-> 2, raise_on_fail |-> TRUE] }

NoProfile == [retries |-> 0, raise_on_fail |-> FALSE]

NoSession == 0

NoCall == [op |-> "none", cdp_url |-> "", session |-> NoSession]

\* the module as imported: nothing held, no call made
InitSess ==
    /\ BROWSER = NoSession
    /\ CDP_URL = ""
    /\ LOCK = "none"
    /\ sessions = << >>
    /\ spc = [t \in Threads |-> "idle"]
    /\ sarg = [t \in Threads |-> [op |-> "none", cdp_url |-> "", profile |-> NoProfile]]
    /\ attempt = [t \in Threads |-> 0]
    /\ sres = [t \in Threads |-> NoSession]
    /\ connects = [t \in Threads |-> 0]
    /\ ops = 0
    /\ last = NoCall
    /\ snap = [t \in Threads |-> [prev |-> NoCall, made |-> 0]]
    /\ alone = [t \in Threads |-> FALSE]
    /\ slept = [t \in Threads |-> << >>]
    /\ sexc = [t \in Threads |-> "none"]

\* thread t is inside a call
Inside(t) == spc[t] \notin {"idle", "done"}

\* thread t makes a call: what it finds, and the calls it overlaps
Called(t) ==
    /\ ops < MaxOps
    /\ ops' = ops + 1
    /\ snap' = [snap EXCEPT ![t] = [prev |-> last, made |-> Len(sessions)]]
    /\ alone' = [u \in Threads |-> IF u = t THEN \A v \in Threads \ {t} : ~Inside(v)
                                    ELSE alone[u] /\ ~Inside(u)]
    /\ connects' = [connects EXCEPT ![t] = 0]
    /\ attempt' = [attempt EXCEPT ![t] = 0]
    /\ slept' = [slept EXCEPT ![t] = << >>]
    /\ sexc' = [sexc EXCEPT ![t] = "none"]

\* the call of thread t returns b
Returned(t, b) == last' = [op |-> sarg[t].op, cdp_url |-> sarg[t].cdp_url, session |-> b]

\* _BROWSER.close() inside try/except: an open session is closed; on a session whose
\* connection is lost close raises and the exception is swallowed
Close(ss, b) ==
    IF b = NoSession THEN ss
    ELSE [ss EXCEPT ![b].state = IF @ = "open" THEN "closed" ELSE @]

\* get_cdp_browser(cdp_url) is called: lines 61-62, then the thread waits for _LOCK
GetCall(t, ep, profile) ==
    /\ spc[t] \in {"idle", "done"}
    /\ Called(t)
    /\ sarg' = [sarg EXCEPT ![t] = [op |-> "get", cdp_url |-> ep, profile |-> profile]]
    /\ IF ep = ""
       THEN /\ spc' = [spc EXCEPT ![t] = "done"]
            /\ sres' = [sres EXCEPT ![t] = NoSession]
            /\ last' = [op |-> "get", cdp_url |-> ep, session |-> NoSession]
       ELSE /\ spc' = [spc EXCEPT ![t] = "lock"]
            /\ UNCHANGED <<sres, last>>
    /\ UNCHANGED <<dbVars, connVars, canonVars, exVars, notSess, BROWSER, CDP_URL, LOCK, sessions>>

\* invalidate_cdp_browser() is called: the thread waits for _LOCK
InvalidateCall(t) ==
    /\ spc[t] \in {"idle", "done"}
    /\ Called(t)
    /\ sarg' = [sarg EXCEPT ![t] = [op |-> "invalidate", cdp_url |-> "", profile |-> NoProfile]]
    /\ spc' = [spc EXCEPT ![t] = "lock"]
    /\ UNCHANGED <<dbVars, connVars, canonVars, exVars, notSess, BROWSER, CDP_URL, LOCK, sessions, sres, last>>

\* a with block that keeps _LOCK when it is left otherwise than by returning a session
Leave_SessionOnly(t, path) == IF path \in {"reused", "connected"} THEN "none" ELSE t

\* with _LOCK: the block is left, by a return or by an exception, and the context
\* manager releases the lock whatever the path
Leave(t, path) == "none"

\* a lock that any thread may take whoever holds it
CanAcquire_Always == TRUE

\* threading.Lock: free to take only when no thread holds it
CanAcquire == LOCK = "none"

\* with _LOCK: the thread enters
Acquire(t) ==
    /\ spc[t] = "lock"
    /\ CanAcquire
    /\ LOCK' = t
    /\ spc' = [spc EXCEPT ![t] = IF sarg[t].op = "get" THEN "check" ELSE "close"]
    /\ UNCHANGED <<dbVars, connVars, canonVars, exVars, notSess, BROWSER, CDP_URL, sessions, sarg, attempt,
                   sres, connects, ops, last, snap, alone, slept, sexc>>

\* the held session is handed out again whatever endpoint is asked for
Reusable_AnyEndpoint(ep) == BROWSER # NoSession

\* _BROWSER is not None and _CDP_URL == cdp_url: line 67
Reusable(ep) == BROWSER # NoSession /\ CDP_URL = ep

\* lines 67-79: return the held session, or close it and clear the globals
GetCheck(t) ==
    /\ spc[t] = "check"
    /\ IF Reusable(sarg[t].cdp_url)
       THEN /\ sres' = [sres EXCEPT ![t] = BROWSER]
            /\ LOCK' = Leave(t, "reused")
            /\ spc' = [spc EXCEPT ![t] = "done"]
            /\ Returned(t, BROWSER)
            /\ UNCHANGED <<BROWSER, CDP_URL, sessions>>
       ELSE /\ sessions' = Close(sessions, BROWSER)
            /\ BROWSER' = NoSession
            /\ CDP_URL' = ""
            /\ spc' = [spc EXCEPT ![t] = "connect"]
            /\ UNCHANGED <<LOCK, sres, last>>
    /\ UNCHANGED <<dbVars, connVars, canonVars, exVars, notSess, sarg, attempt, connects, ops, snap, alone,
                   slept, sexc>>

\* line 84: connect_over_cdp is entered
ConnectStart(t) ==
    /\ spc[t] = "connect"
    /\ spc' = [spc EXCEPT ![t] = "connecting"]
    /\ connects' = [connects EXCEPT ![t] = @ + 1]
    /\ UNCHANGED <<dbVars, connVars, canonVars, exVars, notSess, BROWSER, CDP_URL, LOCK, sessions, sarg,
                   attempt, sres, ops, last, snap, alone, slept, sexc>>

\* a sleep of backoff_s after every failed attempt
Backoff_Constant(n) == 1

\* time.sleep(backoff_s * (2**attempt)), in units of backoff_s: line 90
Backoff(n) == 2 ^ n

\* lines 84-100: connect_over_cdp returns a new session, or raises and the thread
\* sleeps; after the last failed attempt the call returns None, or raises
\* RuntimeError if raise_on_fail is set
ConnectEnd(t, ok) ==
    /\ spc[t] = "connecting"
    /\ IF ok
       THEN /\ sessions' = Append(sessions, [endpoint |-> sarg[t].cdp_url, state |-> "open"])
            /\ BROWSER' = Len(sessions) + 1
            /\ CDP_URL' = sarg[t].cdp_url
            /\ sres' = [sres EXCEPT ![t] = Len(sessions) + 1]
            /\ LOCK' = Leave(t, "connected")
            /\ spc' = [spc EXCEPT ![t] = "done"]
            /\ Returned(t, Len(sessions) + 1)
            /\ UNCHANGED <<attempt, slept, sexc>>
       ELSE /\ attempt' = [attempt EXCEPT ![t] = @ + 1]
            /\ slept' = [slept EXCEPT ![t] = Append(@, Backoff(attempt[t]))]
            /\ IF attempt[t] + 1 < sarg[t].profile.retries
               THEN /\ spc' = [spc EXCEPT ![t] = "connect"]
                    /\ UNCHANGED <<LOCK, sres, last, sexc>>
               ELSE /\ spc' = [spc EXCEPT ![t] = "done"]
                    /\ sres' = [sres EXCEPT ![t] = NoSession]
                    /\ sexc' = [sexc EXCEPT ![t] = IF sarg[t].profile.raise_on_fail
                                                   THEN "RuntimeError" ELSE "none"]
                    /\ LOCK' = Leave(t, IF sarg[t].profile.raise_on_fail THEN "raised" ELSE "failed")
                    /\ Returned(t, NoSession)
            /\ UNCHANGED <<BROWSER, CDP_URL, sessions>>
    /\ UNCHANGED <<dbVars, connVars, canonVars, exVars, notSess, sarg, connects, ops, snap, alone>>

\* invalidate_cdp_browser leaves the session in _BROWSER
AfterInvalidate_Keep(b) == b

\* _BROWSER = None: line 49
AfterInvalidate(b) == NoSession

\* invalidate_cdp_browser, inside the lock: lines 44-50
InvalidateClose(t) ==
    /\ spc[t] = "close"
    /\ sessions' = Close(sessions, BROWSER)
    /\ BROWSER' = AfterInvalidate(BROWSER)
    /\ CDP_URL' = IF AfterInvalidate(BROWSER) = NoSession THEN "" ELSE CDP_URL
    /\ LOCK' = Leave(t, "invalidated")
    /\ spc' = [spc EXCEPT ![t] = "done"]
    /\ Returned(t, NoSession)
    /\ UNCHANGED <<dbVars, connVars, canonVars, exVars, notSess, sarg, attempt, sres, connects, ops, snap, alone,
                   slept, sexc>>

\* the browser goes away or the connection drops: the session held cannot be used
\* any more
SessionLost(b) ==
    /\ b = BROWSER
    /\ b \in 1..Len(sessions)
    /\ sessions[b].state = "open"
    /\ sessions' = [sessions EXCEPT ![b].state = "lost"]
    /\ UNCHANGED <<dbVars, connVars, canonVars, exVars, notSess, BROWSER, CDP_URL, LOCK, spc, sarg, attempt,
                   sres, connects, ops, last, snap, alone, slept, sexc>>

\* ---------------------------------------------------------------------------
\* The scoring pool and the fetchers that navigate the shared browser session:
\* job_scoring.py, cdp_page_fetch.py, tanitjobs_page_fetch.py, linkedin_page_fetch.py
\* ---------------------------------------------------------------------------
\* ThreadPoolExecutor(max_workers=max(1, concurrency)), concurrency = 2
Workers == {"w1", "w2"}

\* the modules that define a _CDP_SEM = threading.Semaphore(1) of their own
Modules == {"cdp_page_fetch", "tanitjobs_page_fetch", "linkedin_page_fetch", "cdp_open_tabs"}

\* the sites _score_one tells apart: _is_linkedin, _is_tanit, any other
Sites == {"linkedin", "tanit", "other"}

\* the _CDP_SEM a fetcher enters: the one of its own module
SemOf(fetcher) == fetcher

\* score_recent_jobs has submitted MaxJobs candidates to the pool
InitNav ==
    /\ sem = [m \in Modules |-> "none"]
    /\ wpc = [w \in Workers |-> "idle"]
    /\ wurl = [w \in Workers |-> "none"]
    /\ wfetcher = [w \in Workers |-> "none"]
    /\ wtry = [w \in Workers |-> 0]
    /\ queue = MaxJobs

\* no scoring run
NavIdle ==
    /\ sem = [m \in Modules |-> "none"]
    /\ wpc = [w \in Workers |-> "idle"]
    /\ wurl = [w \in Workers |-> "none"]
    /\ wfetcher = [w \in Workers |-> "none"]
    /\ wtry = [w \in Workers |-> 0]
    /\ queue = 0

\* a pool worker takes a candidate and enters _score_one: lines 77-88
TakeJob(w, site) ==
    /\ wpc[w] \in {"idle", "done"}
    /\ queue > 0
    /\ queue' = queue - 1
    /\ wurl' = [wurl EXCEPT ![w] = site]
    /\ wtry' = [wtry EXCEPT ![w] = 0]
    /\ wfetcher' = [wfetcher EXCEPT ![w] =
                      CASE site = "linkedin" -> "linkedin_page_fetch"
                        [] site = "tanit" -> "tanitjobs_page_fetch"
                        [] OTHER -> "none"]
    /\ wpc' = [wpc EXCEPT ![w] = IF site = "other" THEN "http" ELSE "wait"]
    /\ UNCHANGED <<dbVars, connVars, canonVars, exVars, notNav, sem>>

\* fetch_page_text returns: for a tanitjobs URL it was the last resort; for any other
\* URL the generic browser fetcher follows if it gave no text (CDP_URL being set)
HttpDone(w, text) ==
    /\ wpc[w] = "http"
    /\ IF wurl[w] = "other" /\ ~text
       THEN /\ wfetcher' = [wfetcher EXCEPT ![w] = "cdp_page_fetch"]
            /\ wpc' = [wpc EXCEPT ![w] = "wait"]
       ELSE /\ wfetcher' = [wfetcher EXCEPT ![w] = "none"]
            /\ wpc' = [wpc EXCEPT ![w] = "done"]
    /\ UNCHANGED <<dbVars, connVars, canonVars, exVars, notNav, sem, wurl, wtry, queue>>

\* with _CDP_SEM: the worker enters the semaphore of the fetcher's module
SemAcquire(w) ==
    /\ wpc[w] = "wait"
    /\ sem[SemOf(wfetcher[w])] = "none"
    /\ sem' = [sem EXCEPT ![SemOf(wfetcher[w])] = w]
    /\ wpc' = [wpc EXCEPT ![w] = "get"]
    /\ UNCHANGED <<dbVars, connVars, canonVars, exVars, notNav, wurl, wfetcher, wtry, queue>>

\* the fetcher returns "": the semaphore is left; _score_one falls back to
\* fetch_page_text for a tanitjobs URL
GiveUp(w) ==
    /\ sem' = [sem EXCEPT ![SemOf(wfetcher[w])] = "none"]
    /\ wpc' = [wpc EXCEPT ![w] = IF wurl[w] = "tanit" THEN "http" ELSE "done"]

\* browser = get_cdp_browser(cdp_url, ...): a session, or None
GetBrowser(w, got) ==
    /\ wpc[w] = "get"
    /\ IF got
       THEN wpc' = [wpc EXCEPT ![w] = "nav"] /\ sem' = sem
       ELSE GiveUp(w)
    /\ UNCHANGED <<dbVars, connVars, canonVars, exVars, notNav, wurl, wfetcher, wtry, queue>>

\* the navigation and extraction on the session end: with the text, or with an
\* exception, after which invalidate_cdp_browser is called and the tanitjobs and
\* linkedin fetchers try once more
NavEnd(w, ok) ==
    /\ wpc[w] = "nav"
    /\ IF ok
       THEN /\ sem' = [sem EXCEPT ![SemOf(wfetcher[w])] = "none"]
            /\ wpc' = [wpc EXCEPT ![w] = "done"]
            /\ wtry' = wtry
       ELSE IF wfetcher[w] # "cdp_page_fetch" /\ wtry[w] = 0
            THEN /\ wtry' = [wtry EXCEPT ![w] = 1]
                 /\ wpc' = [wpc EXCEPT ![w] = "get"]
                 /\ sem' = sem
            ELSE GiveUp(w) /\ wtry' = wtry
    /\ UNCHANGED <<dbVars, connVars, canonVars, exVars, notNav, wurl, wfetcher, queue>>


TextFetchResult(u, text, method, status, error) ==
    [url |-> u, text |-> text, method |-> method, status |-> status, error |-> error]

\* what the server answers to a GET: an exception, or a status code and a body
HttpResponses ==
    { [exc |-> TRUE, status_code |-> 0, text |-> NoText],
      [exc |-> FALSE, status_code |-> 403, text |-> LongText],
      [exc |-> FALSE, status_code |-> 404, text |-> LongText],
      [exc |-> FALSE, status_code |-> 200, text |-> LongText],
      [exc |-> FALSE, status_code |-> 200, text |-> ShortText] }

\* what the browser does during one fetch: whether get_cdp_browser hands out a session,
\* where an exception is raised if one is ("setup": on the context or the page before
\* the navigation; "page": during the navigation or the extraction), and the text of
\* the page. For the tanitjobs fetcher, which tries twice, this is the last try made.
CdpResponses ==
    { [session |-> FALSE, fault |-> "none", text |-> NoText],
      [session |-> TRUE, fault |-> "setup", text |-> NoText],
      [session |-> TRUE, fault |-> "page", text |-> NoText],
      [session |-> TRUE, fault |-> "none", text |-> LongText],
      [session |-> TRUE, fault |-> "none", text |-> ChallengeText] }

\* an exception was raised during the browser fetch, or no session could be obtained
Faulty(resp) == ~resp.session \/ resp.fault # "none"

\* what the server answers to the HEAD probe
HeadResponses == {"exception", "cloudflare", "plain"}

\* the message of a caught exception or of a refused status code
ErrorText == "error"

\* _fetch_http with the body of a refused answer classified like any other
fetch_http_ClassifyBody(u, resp) ==
    IF resp.exc THEN TextFetchResult(u, NoText, "http", "error", ErrorText)
    ELSE TextFetchResult(u, resp.text, "http", classify_text(resp.text), "")

\* _fetch_http(url), given the server's answer
fetch_http(u, resp) ==
    IF resp.exc THEN TextFetchResult(u, NoText, "http", "error", ErrorText)
    ELSE IF resp.status_code \in {403, 429, 503, 520, 522, 523, 524}
    THEN TextFetchResult(u, NoText, "http", "blocked", ErrorText)
    ELSE IF resp.status_code >= 400
    THEN TextFetchResult(u, NoText, "http", "error", ErrorText)
    ELSE TextFetchResult(u, resp.text, "http", classify_text(resp.text), "")

\* the status codes and bodies a server may answer with
StatusCodes ==
    {200, 204, 399, 400, 401, 403, 404, 410, 429, 500, 502, 503, 504, 520, 521, 522, 523, 524, 525, 599}

Bodies == { NoText, ShortText, LongText, ChallengeText }

HttpAnswers ==
    { [exc |-> TRUE, status_code |-> 0, text |-> NoText] }
        \cup [exc : {FALSE}, status_code : StatusCodes, text : Bodies]

HttpIdle == http_resp = [exc |-> TRUE, status_code |-> 0, text |-> NoText] /\ http_res = None

\* a GET is about to be answered
InitHttp == http_resp \in HttpAnswers /\ http_res = None

\* fetch_page_text_via_cdp: the text it returns; every exception is caught at line 109
fetch_page_text_via_cdp(resp) ==
    IF ~resp.session THEN NoText
    ELSE IF resp.fault # "none" THEN NoText
    ELSE resp.text

\* fetch_tanitjobs_page_text raises: lines 65-73 are outside its try
TanitRaises(resp) == resp.session /\ resp.fault = "setup"

\* fetch_tanitjobs_page_text: the text it returns when it does not raise
fetch_tanitjobs_page_text(resp) ==
    IF ~resp.session THEN NoText
    ELSE IF resp.fault = "page" THEN NoText
    ELSE resp.text

\* the raw URLs handed to the engine
PlainUrl == <<"http", ":", "/", "/", "x.com", "/", "a">>
TrackedUrl == <<"http", ":", "/", "/", "x.com", "/", "a", "?", "utm_source", "=", "1">>
TanitUrl == <<"http", ":", "/", "/", "www.tanitjobs.com", "/", "a", "/">>
WwrUrl == <<"http", ":", "/", "/", "weworkremotely.com", "/", "a">>

\* ---------------------------------------------------------------------------
\* Score store: job_scores_db.py
\* ---------------------------------------------------------------------------
\* the raw URLs scored: the store does not canonicalize them
ScoreUrls == { PlainUrl, TrackedUrl }

\* the reasons argument: a list of strings or one string
ReasonsArgs ==
    { [list |-> TRUE, items |-> << >>, text |-> ""],
      [list |-> TRUE, items |-> <<"fit", "remote">>, text |-> ""],
      [list |-> FALSE, items |-> << >>, text |-> "fit"] }

\* json.dumps(reasons) of a list, json.dumps([reasons]) of a string: lines 62-65
ReasonsJson(reasons) ==
    IF reasons.list THEN <<"[">> \o reasons.items \o <<"]">>
    ELSE <<"[", reasons.text, "]">>

ScoreArgs ==
    [url : ScoreUrls, score : {1, 2}, decision : {"apply", "skip"}, reasons : ReasonsArgs,
     model : {"m1", "m2"}]

NoScoreArg ==
    [url |-> << >>, score |-> 0, decision |-> "", reasons |-> [list |-> TRUE, items |-> << >>, text |-> ""],
     model |-> "", now |-> 0]

\* a new JobScoresDB file: the table is empty
InitScores ==
    /\ scores = {}
    /\ score_calls = 0
    /\ score_arg = NoScoreArg
    /\ first_scored = [u \in ScoreUrls |-> -1]

ScoreRows(t, u) == { row \in t : row.url = u }

\* the INSERT: lines 69-75
ScoreInsert(t, a, nw) ==
    t \cup { [url |-> a.url, score |-> a.score, decision |-> a.decision,
              reasons |-> ReasonsJson(a.reasons), model |-> a.model,
              created_at |-> nw, updated_at |-> nw] }

\* an UPDATE that also sets created_at, as INSERT OR REPLACE would
ScoreUpdate_Replace(t, a, nw) ==
    { IF row.url = a.url
      THEN [row EXCEPT !.score = a.score, !.decision = a.decision,
                       !.reasons = ReasonsJson(a.reasons), !.model = a.model,
                       !.created_at = nw, !.updated_at = nw]
      ELSE row : row \in t }

\* the UPDATE ... WHERE url = ?: lines 77-84
ScoreUpdate(t, a, nw) ==
    { IF row.url = a.url
      THEN [row EXCEPT !.score = a.score, !.decision = a.decision,
                       !.reasons = ReasonsJson(a.reasons), !.model = a.model,
                       !.updated_at = nw]
      ELSE row : row \in t }

\* JobScoresDB.upsert_score: INSERT, and on the IntegrityError of the primary key
\* url the UPDATE, then commit
upsert_score(a, nw) ==
    /\ score_calls < MaxScoreCalls
    /\ score_calls' = score_calls + 1
    /\ clock' = nw
    /\ score_arg' = [url |-> a.url, score |-> a.score, decision |-> a.decision,
                     reasons |-> a.reasons, model |-> a.model, now |-> nw]
    /\ first_scored' = [first_scored EXCEPT ![a.url] = IF @ = -1 THEN nw ELSE @]
    /\ scores' = IF ScoreRows(scores, a.url) = {}
                 THEN ScoreInsert(scores, a, nw)
                 ELSE ScoreUpdate(scores, a, nw)
    /\ UNCHANGED <<jobs, calls, arg_jobs, now, new_jobs, outcome, log, connVars, canonVars, exVars, notScore>>

\* ---------------------------------------------------------------------------
\* The browser path of the extraction engine: text_extraction._fetch_cdp calling
\* fetch_page_text_via_cdp or fetch_tanitjobs_page_text, which call the session
\* manager. The engine makes its browser fetches one after the other on its own
\* thread, so the _CDP_SEM of each fetcher is always free when it is entered.
\* ---------------------------------------------------------------------------
\* the thread of extract_text_for_urls
Engine == "t1"

\* both fetchers call get_cdp_browser with retries=3 and without raise_on_fail
FetcherProfile == [retries |-> 3, raise_on_fail |-> FALSE]

\* "tanitjobs.com" in _host(url), or not: line 143
FetchSites == {"tanit", "other"}

\* how the page steps of a fetch end: the text is returned, an exception is swallowed
\* on the way (the PWTimeoutError of page.goto, the errors of set_extra_http_headers
\* and inner_text) and the text is returned, or an exception reaches the handler
PageOutcomes == {"text", "swallowed", "raised"}

FetchIdle ==
    /\ fpc = "idle"
    /\ fsite = "none"
    /\ ftry = 0
    /\ fops = 0
    /\ caught = FALSE
    /\ fres = "none"

\* _fetch_cdp(url, cdp_url) with cdp_url set: the fetcher is entered
FetchCdp(site) ==
    /\ fpc \in {"idle", "returned"}
    /\ ops < MaxOps
    /\ fpc' = "get"
    /\ fsite' = site
    /\ ftry' = 0
    /\ fops' = ops
    /\ fres' = "none"
    /\ UNCHANGED <<dbVars, connVars, canonVars, exVars, notFetch, sessVars, caught>>

\* browser = get_cdp_browser(cdp_url, ...)
FetchGet ==
    /\ fpc = "get"
    /\ ops = fops
    /\ GetCall(Engine, "cdp", FetcherProfile)

\* the fetcher leaves: the loop of fetch_tanitjobs_page_text goes round once more
\* after its first caught exception, otherwise "" is returned
AfterHandler ==
    IF fsite = "tanit" /\ ftry = 0
    THEN /\ ftry' = 1
         /\ fpc' = "get"
         /\ fres' = fres
    ELSE /\ ftry' = ftry
         /\ fpc' = "returned"
         /\ fres' = "empty"

\* get_cdp_browser has returned: None makes the fetcher return ""
FetchGot ==
    /\ fpc = "get"
    /\ ops = fops + 1
    /\ spc[Engine] = "done"
    /\ caught' = FALSE
    /\ IF sres[Engine] = NoSession
       THEN fpc' = "returned" /\ fres' = "empty"
       ELSE fpc' = "setup" /\ fres' = fres
    /\ UNCHANGED <<dbVars, connVars, canonVars, exVars, notFetch, sessVars, fsite, ftry, fops>>

\* the steps whose exceptions reach the handler that invalidates the session: in
\* fetch_page_text_via_cdp the try holds every step (lines 54-115); in
\* fetch_tanitjobs_page_text it starts after browser.contexts, new_page and
\* set_default_timeout (lines 65-73 are outside the try of line 79)
HandlerCovers(site, step) == site = "other" \/ step = "page"

\* browser.contexts / new_context, new_page, set_default_timeout: they return or one
\* of them raises
Setup(ok) ==
    /\ fpc = "setup"
    /\ IF ok
       THEN /\ fpc' = "page"
            /\ UNCHANGED <<caught, fres, fops>>
       ELSE /\ caught' = TRUE
            /\ fops' = ops
            /\ IF HandlerCovers(fsite, "setup")
               THEN fpc' = "invalidate" /\ fres' = fres
               ELSE fpc' = "returned" /\ fres' = "error"
    /\ UNCHANGED <<dbVars, connVars, canonVars, exVars, notFetch, sessVars, fsite, ftry>>

\* goto, the wait for the challenge to clear, evaluate
Page(end) ==
    /\ fpc = "page"
    /\ CASE end = "text" -> fpc' = "returned" /\ fres' = "text" /\ UNCHANGED <<caught, fops>>
         [] end = "swallowed" -> fpc' = "returned" /\ fres' = "text" /\ caught' = TRUE /\ fops' = fops
         [] OTHER -> fpc' = "invalidate" /\ fres' = fres /\ caught' = TRUE /\ fops' = ops
    /\ UNCHANGED <<dbVars, connVars, canonVars, exVars, notFetch, sessVars, fsite, ftry>>

\* except Exception: invalidate_cdp_browser()
FetchInvalidate ==
    /\ fpc = "invalidate"
    /\ ops = fops
    /\ InvalidateCall(Engine)

\* invalidate_cdp_browser has returned
FetchInvalidated ==
    /\ fpc = "invalidate"
    /\ ops = fops + 1
    /\ spc[Engine] = "done"
    /\ AfterHandler
    /\ fops' = ops
    /\ UNCHANGED <<dbVars, connVars, canonVars, exVars, notFetch, sessVars, fsite, caught>>

\* the components modelled after the extraction engine, before any of their operations
\* _fetch_http(url) runs on the answer
FetchHttp ==
    /\ http_res = None
    /\ http_res' = fetch_http(PlainUrl, http_resp)
    /\ UNCHANGED <<dbVars, connVars, canonVars, exVars, notHttp, http_resp>>

RestIdle == ClsIdle /\ InitSess /\ NavIdle /\ InitScores /\ FetchIdle /\ HttpIdle

RawUrls == { PlainUrl, TrackedUrl, TanitUrl, WwrUrl }

\* canonicalize_url on the raw URLs
CanonOf == [u \in RawUrls |-> canonicalize_url(u)]

\* _host(url)
host(u) == Lower(urlparse(u).netloc)

HostOf == [u \in RawUrls |-> host(u)]

\* "tanitjobs.com" in host, "weworkremotely.com" in host
HostHas(u, name) ==
    \E i \in 1..Len(hosts[u]) :
        \/ name = "tanitjobs.com" /\ hosts[u][i] = "www.tanitjobs.com"
        \/ name = "weworkremotely.com" /\ hosts[u][i] = "weworkremotely.com"

\* the URLs for which _cdp_first sends the HEAD probe
Probed(u) == ~HostHas(u, "tanitjobs.com") /\ HostHas(u, "weworkremotely.com")

\* _http_seems_cloudflare, given the answer to the probe
http_seems_cloudflare(head) == head = "cloudflare"

\* _cdp_first(url), given the answers to the probes
cdp_first(u, heads) ==
    IF HostHas(u, "tanitjobs.com") THEN TRUE
    ELSE IF HostHas(u, "weworkremotely.com") THEN http_seems_cloudflare(heads[u])
    ELSE FALSE

\* _fetch_cdp(url, cdp_url), given what the browser does
fetch_cdp(u, endpoint, resp) ==
    IF endpoint = "" THEN TextFetchResult(u, NoText, "cdp", "error", "CDP_URL not set")
    ELSE IF HostHas(u, "tanitjobs.com")
    THEN IF TanitRaises(resp) THEN TextFetchResult(u, NoText, "cdp", "error", ErrorText)
         ELSE TextFetchResult(u, fetch_tanitjobs_page_text(resp), "cdp",
                              classify_text(fetch_tanitjobs_page_text(resp)), "")
    ELSE TextFetchResult(u, fetch_page_text_via_cdp(resp), "cdp",
                         classify_text(fetch_page_text_via_cdp(resp)), "")

RECURSIVE Dedupe(_, _)
\* Dedupe while preserving order
Dedupe(us, seenUrls) ==
    IF us = << >> THEN << >>
    ELSE IF Head(us) \in seenUrls THEN Dedupe(Tail(us), seenUrls)
    ELSE <<Head(us)>> \o Dedupe(Tail(us), seenUrls \cup {Head(us)})

\* no budget: every URL of the batch is kept
Budget_NoCut(us, max_jobs) == us

\* urls[:max_jobs] when max_jobs is set and exceeded
Budget(us, max_jobs) ==
    IF max_jobs # 0 /\ Len(us) > max_jobs THEN SubSeq(us, 1, max_jobs) ELSE us

\* the urls of a call once filtered, deduplicated and cut to the budget: lines 171-187
Budgeted(arg) == Budget(Dedupe(SelectSeq(arg.urls, LAMBDA u : u # << >>), {}), arg.max_jobs)

\* existing = db.get_many(url_canons): lines 190-191
Existing(t, arg) ==
    LET us == Budgeted(arg)
    IN  get_many(t, [i \in 1..Len(us) |-> canon[us[i]]])

\* the test of the cache filter: line 197
Satisfied(rows, u) ==
    \E row \in rows : row.url_canon = canon[u] /\ row.status = "ok" /\ row.text.len > 0

\* the cache filter left out: every URL within the budget is a candidate
Candidates_NoFilter(t, arg) == Budgeted(arg)

\* the candidates of a call: lines 193-200
Candidates(t, arg) ==
    IF arg.refresh THEN Budgeted(arg)
    ELSE SelectSeq(Budgeted(arg), LAMBDA u : ~Satisfied(Existing(t, arg), u))

Zeros == [candidates |-> 0, fetched |-> 0, ok |-> 0, blocked |-> 0, empty |-> 0, error |-> 0, errors |-> 0]

NoStats == [candidates |-> 0, fetched |-> 0, ok |-> 0, blocked |-> 0, empty |-> 0, error |-> 0]

NoArg == [urls |-> << >>, max_jobs |-> 0, refresh |-> FALSE]

\* a cache row as a fetch of an earlier process left it
Entry(res) ==
    [url_canon |-> CanonOf[res.url], url |-> res.url, text |-> res.text, method |-> res.method,
     fetched_at |-> 0, status |-> res.status, error |-> res.error]

\* the caches a call can find: what earlier calls left in the file
Caches ==
    { {},
      { Entry(TextFetchResult(PlainUrl, LongText, "http", "ok", "")) },
      { Entry(TextFetchResult(TrackedUrl, NoText, "http", "error", ErrorText)) },
      { Entry(TextFetchResult(WwrUrl, LongText, "cdp", "ok", "")),
        Entry(TextFetchResult(TanitUrl, ChallengeText, "cdp", "blocked", "")) },
      { Entry(TextFetchResult(TrackedUrl, LongText, "http", "ok", "")),
        Entry(TextFetchResult(WwrUrl, LongText, "http", "ok", "")) } }

\* no call of extract_text_for_urls made yet
ExIdle ==
    /\ canon = CanonOf
    /\ hosts = HostOf
    /\ runs = 0
    /\ xpc = "idle"
    /\ xarg = NoArg
    /\ before = {}
    /\ urls = << >>
    /\ cdp_first_urls = << >>
    /\ http_first_urls = << >>
    /\ loop_i = 1
    /\ submitted = 0
    /\ started = 0
    /\ running = {}
    /\ finished = {}
    /\ http_results = << >>
    /\ fallback_urls = << >>
    /\ stats = NoStats
    /\ ret = Zeros
    /\ net = {}
    /\ faults = {}
    /\ pending = None
    /\ trace = << >>

InitEx == env_cdp_url = "" /\ cache = {} /\ ExIdle

InitExtract == env_cdp_url \in {"", "cdp"} /\ cache \in Caches /\ ExIdle

\* the locals of a call are gone once it has returned
DropLocals ==
    /\ urls' = << >>
    /\ cdp_first_urls' = << >>
    /\ http_first_urls' = << >>
    /\ loop_i' = 1
    /\ submitted' = 0
    /\ started' = 0
    /\ running' = {}
    /\ finished' = {}
    /\ http_results' = << >>
    /\ fallback_urls' = << >>
    /\ stats' = NoStats
    /\ faults' = {}
    /\ pending' = None

Event(kind, u) == [kind |-> kind, url |-> u]

\* stats["fetched"] += 1; stats[res.status] += 1: lines 216-218
Counted(st, res) == [st EXCEPT !.fetched = @ + 1, ![res.status] = @ + 1]

\* the counters incremented while the cache write is still to come
DuringWrite_Counted(st, res) == Counted(st, res)

\* the counters while db.upsert runs: untouched (lines 214-215)
DuringWrite(st, res) == st

\* _record(res), first half: uc = canonicalize_url(res.url); db.upsert(...), which
\* commits
RecordEffect(res) ==
    /\ cache' = CacheUpsert(cache, canon[res.url], res, clock)
    /\ stats' = DuringWrite(stats, res)
    /\ pending' = res

\* extract_text_for_urls is called: lines 171-211
Start(arg, heads) ==
    /\ xpc \in {"idle", "done"}
    /\ runs < MaxRuns
    /\ runs' = runs + 1
    /\ clock' = clock + 1
    /\ xarg' = arg
    /\ before' = cache
    /\ LET cands == Candidates(cache, arg)
           first == SelectSeq(cands, LAMBDA u : cdp_first(u, heads))
           rest == SelectSeq(cands, LAMBDA u : u \notin Elems(first))
       IN  /\ DOMAIN heads = { u \in Elems(cands) : Probed(u) }
           /\ net' = { [kind |-> "HEAD", url |-> u] : u \in DOMAIN heads }
           /\ trace' = << >>
           /\ IF cands = << >>
              THEN /\ xpc' = "done"
                   /\ ret' = Zeros
                   /\ DropLocals
              ELSE /\ xpc' = IF first # << >> THEN "cdp_first" ELSE "http"
                   /\ ret' = ret
                   /\ urls' = cands
                   /\ cdp_first_urls' = first
                   /\ http_first_urls' = rest
                   /\ stats' = [NoStats EXCEPT !.candidates = Len(cands)]
                   /\ loop_i' = 1
                   /\ submitted' = 0
                   /\ started' = 0
                   /\ running' = {}
                   /\ finished' = {}
                   /\ http_results' = << >>
                   /\ fallback_urls' = << >>
                   /\ faults' = {}
                   /\ pending' = None
    /\ UNCHANGED <<canon, hosts, env_cdp_url, cache, jobs, calls, arg_jobs, now, new_jobs, outcome, log, connVars, canonVars, restVars>>

\* cdp_url or (os.getenv("CDP_URL") or "").strip() or None, no caller passing cdp_url
cdp_url == env_cdp_url

\* the exception a browser fetch meets, if a browser endpoint is configured
CdpFault(u, resp) ==
    IF cdp_url # "" /\ Faulty(resp) THEN { [path |-> "cdp", url |-> u] } ELSE {}

\* the request a browser fetch makes, if a browser endpoint is configured
CdpRequest(u) == IF cdp_url = "" THEN {} ELSE { [kind |-> "CDP", url |-> u] }

\* one iteration of the CDP-first loop: lines 221-225
CdpFirstFetch(resp) ==
    /\ xpc = "cdp_first"
    /\ pending = None
    /\ LET u == cdp_first_urls[loop_i]
       IN  /\ RecordEffect(fetch_cdp(u, cdp_url, resp))
           /\ net' = net \cup CdpRequest(u)
           /\ faults' = faults \cup CdpFault(u, resp)
           /\ trace' = trace \o <<Event("cdp", u), Event("write", u)>>
    /\ UNCHANGED <<dbVars, connVars, canonVars, restVars, canon, hosts, env_cdp_url, runs, xarg, before, urls, cdp_first_urls,
                   http_first_urls, submitted, started, running, finished, http_results,
                   fallback_urls, ret, loop_i, xpc>>

\* pool.submit(_fetch_http, url): line 234
Submit ==
    /\ xpc = "http"
    /\ submitted < Len(http_first_urls)
    /\ submitted' = submitted + 1
    /\ LET u == http_first_urls[submitted + 1]
       IN  trace' = trace \o (IF submitted > 0 THEN <<Event("sleep", u)>> ELSE << >>)
                          \o <<Event("submit", u)>>
    /\ UNCHANGED <<dbVars, connVars, canonVars, restVars, canon, hosts, env_cdp_url, cache, runs, xpc, xarg, before, urls,
                   cdp_first_urls, http_first_urls, loop_i, started, running, finished,
                   http_results, fallback_urls, stats, ret, net, faults, pending>>

PoolWorkers == 2

\* a pool that starts a thread for every fetch submitted
FreeWorker_Always == TRUE

\* ThreadPoolExecutor(max_workers=2): a worker is idle
FreeWorker == Cardinality(running) < PoolWorkers

\* a free pool worker takes the oldest waiting fetch and sends the GET
WorkerStart ==
    /\ xpc = "http"
    /\ started < submitted
    /\ FreeWorker
    /\ started' = started + 1
    /\ running' = running \cup { http_first_urls[started + 1] }
    /\ net' = net \cup { [kind |-> "GET", url |-> http_first_urls[started + 1]] }
    /\ UNCHANGED <<dbVars, connVars, canonVars, restVars, canon, hosts, env_cdp_url, cache, runs, xpc, xarg, before, urls,
                   cdp_first_urls, http_first_urls, loop_i, submitted, finished, http_results,
                   fallback_urls, stats, ret, faults, pending, trace>>

\* _fetch_http returns in a pool worker
WorkerFinish(u, resp) ==
    /\ xpc = "http"
    /\ u \in running
    /\ running' = running \ {u}
    /\ finished' = finished \cup { fetch_http(u, resp) }
    /\ faults' = IF resp.exc THEN faults \cup { [path |-> "http", url |-> u] } ELSE faults
    /\ UNCHANGED <<dbVars, connVars, canonVars, restVars, canon, hosts, env_cdp_url, cache, runs, xpc, xarg, before, urls,
                   cdp_first_urls, http_first_urls, loop_i, submitted, started, http_results,
                   fallback_urls, stats, ret, net, pending, trace>>

\* as_completed hands over one finished future: lines 235-240
Collect(res) ==
    /\ xpc = "http"
    /\ submitted = Len(http_first_urls)
    /\ res \in finished
    /\ finished' = finished \ {res}
    /\ http_results' = Append(http_results, res)
    /\ xpc' = IF Len(http_results') = Len(http_first_urls) THEN "record" ELSE xpc
    /\ loop_i' = 1
    /\ UNCHANGED <<dbVars, connVars, canonVars, restVars, canon, hosts, env_cdp_url, cache, runs, xarg, before, urls,
                   cdp_first_urls, http_first_urls, submitted, started, running, fallback_urls,
                   stats, ret, net, faults, pending, trace>>

\* every HTTP result is recorded, whether or not a browser endpoint is configured
KeepsHttp_Always(res) == TRUE

\* res.status == "ok" or not cdp_url: line 244
KeepsHttp(res) == res.status = "ok" \/ cdp_url = ""

\* one iteration of the loop over http_results: lines 243-247
RecordHttp ==
    /\ xpc = "record"
    /\ pending = None
    /\ LET res == http_results[loop_i]
       IN  IF KeepsHttp(res)
           THEN /\ RecordEffect(res)
                /\ trace' = Append(trace, Event("write", res.url))
                /\ UNCHANGED <<fallback_urls, loop_i, xpc>>
           ELSE /\ fallback_urls' = Append(fallback_urls, res.url)
                /\ IF loop_i < Len(http_results)
                   THEN loop_i' = loop_i + 1 /\ xpc' = xpc
                   ELSE loop_i' = 1 /\ xpc' = "fallback"
                /\ UNCHANGED <<cache, stats, pending, trace>>
    /\ UNCHANGED <<dbVars, connVars, canonVars, restVars, canon, hosts, env_cdp_url, runs, xarg, before, urls, cdp_first_urls,
                   http_first_urls, submitted, started, running, finished, http_results, ret, net,
                   faults>>

\* one iteration of the CDP fallback loop: lines 250-254
FallbackFetch(resp) ==
    /\ xpc = "fallback"
    /\ pending = None
    /\ LET u == fallback_urls[loop_i]
       IN  /\ RecordEffect(fetch_cdp(u, cdp_url, resp))
           /\ net' = net \cup CdpRequest(u)
           /\ faults' = faults \cup CdpFault(u, resp)
           /\ trace' = trace \o <<Event("cdp", u), Event("write", u)>>
    /\ UNCHANGED <<dbVars, connVars, canonVars, restVars, canon, hosts, env_cdp_url, runs, xarg, before, urls, cdp_first_urls,
                   http_first_urls, submitted, started, running, finished, http_results,
                   fallback_urls, ret, loop_i, xpc>>

\* _record(res), second half: the counters (lines 216-218); then the rest of the
\* iteration: the sleep of the browser loops unless the URL was their last (lines
\* 224-225 and 253-254), and the next iteration or the next loop
RecordCount ==
    /\ pending # None
    /\ stats' = Counted(stats, pending)
    /\ pending' = None
    /\ LET list == CASE xpc = "cdp_first" -> cdp_first_urls
                     [] xpc = "record" -> http_results
                     [] OTHER -> fallback_urls
       IN  IF loop_i < Len(list)
           THEN /\ loop_i' = loop_i + 1
                /\ xpc' = xpc
                /\ trace' = IF xpc = "record" THEN trace ELSE Append(trace, Event("sleep", list[loop_i]))
           ELSE /\ loop_i' = 1
                /\ trace' = trace
                /\ xpc' = CASE xpc = "cdp_first" -> IF http_first_urls # << >> THEN "http" ELSE "return"
                             [] xpc = "record" -> IF fallback_urls # << >> THEN "fallback" ELSE "return"
                             [] OTHER -> "return"
    /\ UNCHANGED <<dbVars, connVars, canonVars, restVars, canon, hosts, env_cdp_url, cache, runs, xarg, before, urls,
                   cdp_first_urls, http_first_urls, submitted, started, running, finished, http_results,
                   fallback_urls, ret, net, faults>>

\* db.close(); return {**stats, "errors": stats.get("error", 0)}
Return ==
    /\ xpc = "return"
    /\ ret' = [candidates |-> stats.candidates, fetched |-> stats.fetched, ok |-> stats.ok,
               blocked |-> stats.blocked, empty |-> stats.empty, error |-> stats.error,
               errors |-> stats.error]
    /\ xpc' = "done"
    /\ DropLocals
    /\ UNCHANGED <<dbVars, connVars, canonVars, restVars, canon, hosts, env_cdp_url, cache, runs, xarg, before, net, trace>>


\* ---------------------------------------------------------------------------
\* Claims about the text extraction engine
\* ---------------------------------------------------------------------------
\* u's canonical key has, in table t, an entry with status ok and non-empty text
GoodEntry(t, u) ==
    \E row \in t : row.url_canon = canon[u] /\ row.status = "ok" /\ row.text.len > 0

\* the URLs of the current call that had such an entry when the call started
Skipped == { u \in Elems(xarg.urls) : GoodEntry(before, u) }

\* C10: in a call made with refresh=false, a URL whose canonical key had a cache
\* entry with status ok and non-empty text when the call started causes no GET,
\* no HEAD probe and no browser call, its cache entry stays as it was, it is not
\* among the candidates, and the candidates and fetched counters (during the call
\* and as returned) count at most the other URLs of the call.
C10_CacheSkip ==
    (xpc # "idle" /\ ~xarg.refresh) =>
        /\ \A r \in net : r.url \notin Skipped
        /\ \A u \in Skipped :
              /\ CacheRows(cache, canon[u]) = CacheRows(before, canon[u])
              /\ u \notin Elems(urls)
        /\ stats.candidates <= Cardinality(Elems(xarg.urls) \ Skipped)
        /\ stats.fetched <= Cardinality(Elems(xarg.urls) \ Skipped)
        /\ xpc = "done" =>
              /\ ret.candidates <= Cardinality(Elems(xarg.urls) \ Skipped)
              /\ ret.fetched <= Cardinality(Elems(xarg.urls) \ Skipped)

\* a call without refresh has returned: it skipped the probed URL, whose entry was
\* good, and fetched and recorded the other URL of its batch
C10_Witness ==
    /\ xpc = "done"
    /\ ~xarg.refresh
    /\ xarg.urls = <<WwrUrl, TanitUrl>>
    /\ Skipped = { WwrUrl }
    /\ ret.candidates = 1
    /\ ret.fetched = 1
    /\ cache # before

\* the row that _record writes for a result at the time of the current call
RowOf(res) ==
    [url_canon |-> canon[res.url], url |-> res.url, text |-> res.text, method |-> res.method,
     fetched_at |-> clock, status |-> res.status, error |-> res.error]

\* the HTTP-first URLs of the current call whose HTTP fetch ended in a status other than ok
HttpFailed ==
    { http_results[i].url : i \in { j \in 1..Len(http_results) : http_results[j].status # "ok" } }

\* while the HTTP fetches run no browser request was made for an HTTP-first URL; once
\* the loops are over, with a browser endpoint configured, every HTTP-first URL whose
\* HTTP result was not ok has had a browser request and the entry of its canonical
\* key was written by a browser attempt
C11_AfterLoops ==
    /\ xpc \in {"http", "record"} =>
          \A u \in Elems(http_first_urls) : [kind |-> "CDP", url |-> u] \notin net
    /\ (xpc = "return" /\ cdp_url # "") =>
          \A u \in HttpFailed :
              /\ [kind |-> "CDP", url |-> u] \in net
              /\ CacheRows(cache, canon[u]) # {}
              /\ \A row \in CacheRows(cache, canon[u]) : row.method = "cdp"

\* a step of the fallback loop fetches, through the browser, a URL whose HTTP result
\* was not ok, and leaves as the entry of its key exactly the row of the browser result
C11_FallbackStep ==
    xpc = "fallback" =>
        LET u == fallback_urls[loop_i]
        IN  /\ u \in HttpFailed
            /\ [kind |-> "CDP", url |-> u] \in net'
            /\ \E resp \in CdpResponses :
                  CacheRows(cache', canon[u]) = { RowOf(fetch_cdp(u, cdp_url, resp)) }

\* C11: for an HTTP-first URL whose HTTP fetch ends in a status other than ok, when a
\* browser endpoint is configured, the engine afterwards attempts the browser path for
\* that URL, and the cache entry left for the URL holds the method, status and text
\* of the browser attempt, not those of the HTTP attempt.
C11_FallbackSequencing == [](C11_AfterLoops) /\ [][C11_FallbackStep]_vars

\* the loops are over: an HTTP fetch was blocked, the browser then fetched the same
\* URL and the entry holds the text the browser got
C11_Witness ==
    /\ xpc = "return"
    /\ cdp_url # ""
    /\ \E i \in 1..Len(http_results) :
          /\ http_results[i].status = "blocked"
          /\ [kind |-> "CDP", url |-> http_results[i].url] \in net
          /\ \E row \in CacheRows(cache, canon[http_results[i].url]) :
                row.method = "cdp" /\ row.status = "ok" /\ row.text = LongText

\* once the loops of a call are over every candidate has been fetched and recorded
C13_BatchCompleted ==
    xpc = "return" => (stats.fetched = Len(urls) /\ stats.candidates = Len(urls))

\* a step in which a fetch meets an exception: on the HTTP path the result handed to
\* the caller has status error; on the browser path the entry written for the URL
\* has status error
C13_FaultStep ==
    \A f \in faults' \ faults :
        /\ f.path = "http" =>
              \E res \in finished' \ finished : res.url = f.url /\ res.status = "error"
        /\ f.path = "cdp" =>
              /\ CacheRows(cache', canon[f.url]) # {}
              /\ \A row \in CacheRows(cache', canon[f.url]) : row.status = "error"

\* C13: a network or browser exception raised while fetching one URL (on the HTTP path
\* or the browser path, a lost or unobtainable browser session included) is caught,
\* that URL is recorded with status error, and the remaining URLs of the batch are
\* still processed: the call does not raise for the failure of one URL.
C13_FaultsRecordedAsError == [](C13_BatchCompleted) /\ [][C13_FaultStep]_vars

\* at most one entry per canonical URL
C14_OneEntryPerKey ==
    \A r1 \in cache : \A r2 \in cache : r1.url_canon = r2.url_canon => r1 = r2

\* no step deletes an entry
C14_NoDeletion ==
    \A row \in cache : CacheRows(cache', row.url_canon) # {}

\* the step leaves res as the whole entry of its URL's key and touches no other entry
C14_Writes(res) ==
    /\ CacheRows(cache', canon[res.url]) = { RowOf(res) }
    /\ \A row \in cache : row.url_canon # canon[res.url] => row \in cache'
    /\ \A row \in cache' : row.url_canon # canon[res.url] => row \in cache

\* a browser attempt writes the entry of its URL, whatever its outcome
C14_BrowserStep ==
    xpc \in {"cdp_first", "fallback"} =>
        LET u == IF xpc = "cdp_first" THEN cdp_first_urls[loop_i] ELSE fallback_urls[loop_i]
        IN  \E resp \in CdpResponses : C14_Writes(fetch_cdp(u, cdp_url, resp))

\* an HTTP attempt writes the entry of its URL, whatever its outcome
C14_HttpStep == xpc = "record" => C14_Writes(http_results[loop_i])

\* an HTTP attempt writes the entry of its URL if it ended ok or no browser endpoint
\* is configured, and writes nothing otherwise
C14_HttpStepKept ==
    xpc = "record" =>
        IF http_results[loop_i].status = "ok" \/ cdp_url = ""
        THEN C14_Writes(http_results[loop_i])
        ELSE cache' = cache

\* the steps that are no attempt being recorded leave the cache alone
C14_OtherStep == xpc \notin {"cdp_first", "fallback", "record"} => cache' = cache

\* C14 as stated: after any sequence of extraction calls the text cache holds at most
\* one entry per canonical URL; every attempt (HTTP or browser) on a URL writes that
\* entry whatever its outcome, overwriting url, text, method, status, fetched_at and
\* error in place; no entry is ever deleted.
C14_EveryAttemptWrites ==
    /\ [](C14_OneEntryPerKey)
    /\ [][C14_NoDeletion /\ C14_BrowserStep /\ C14_HttpStep /\ C14_OtherStep]_vars

\* C14 amended: the same, except that an HTTP attempt that ended in a status other
\* than ok while a browser endpoint is configured writes nothing: the entry is
\* written by the browser attempt that follows.
C14_EveryRecordedAttemptWrites ==
    /\ [](C14_OneEntryPerKey)
    /\ [][C14_NoDeletion /\ C14_BrowserStep /\ C14_HttpStepKept /\ C14_OtherStep]_vars

\* a call has returned that overwrote in place an entry holding an error with a
\* blocked result: the cache has as many entries as before
C14_Witness ==
    /\ xpc = "done"
    /\ Cardinality(cache) = Cardinality(before)
    /\ \E r1 \in before : \E r2 \in cache :
          /\ r1.url_canon = r2.url_canon
          /\ r1.status = "error" /\ r2.status = "blocked"
          /\ r2.fetched_at > r1.fetched_at

\* u's canonical key has, in table t, an entry with status error or blocked
FailedEntry(t, u) ==
    \E row \in t : row.url_canon = canon[u] /\ row.status \in {"error", "blocked"}

\* C15: recorded failures are remembered: a URL whose cache entry has status error or
\* blocked when a call without refresh starts is not fetched again by that call: it
\* is no candidate and no HEAD, GET or browser request is made for it.
C15_FailuresRemembered ==
    (xpc # "idle" /\ ~xarg.refresh) =>
        \A u \in Elems(xarg.urls) :
            FailedEntry(before, u) => (u \notin Elems(urls) /\ \A r \in net : r.url # u)

Init == InitDB /\ InitConn /\ InitCanonIdle /\ InitEx /\ RestIdle

Next == UpsertCall

\* sequential calls of upsert_jobs on one JobDB
Spec == Init /\ [][Next]_vars

BeginCall ==
    \E c \in Callers : \E js \in SeqsUpTo(ConcPostings, MaxBatch) \ { << >> } :
        \E nw \in clock..MaxClock : Begin(c, js, nw)

StepCall == \E c \in Callers : Step(c)

BusyCall == \E c \in Callers : BusyTimeout(c)

CommitCall == \E c \in Callers : Commit(c)

ReadCall == \E c \in Callers : Read(c)

NextConc == BeginCall \/ StepCall \/ BusyCall \/ CommitCall \/ ReadCall

\* two callers of upsert_jobs on two JobDB objects over the same file
SpecConc == Init /\ [][NextConc]_vars

NextCanon == Canonicalize \/ Recanonicalize

\* canonicalize_url applied to every URL of UrlParts and its variants
InitCanonSpec == InitDB /\ InitConn /\ InitCanon /\ InitEx /\ RestIdle

SpecCanon == InitCanonSpec /\ [][NextCanon]_vars

\* the batches of URLs handed to extract_text_for_urls
Batches ==
    { << >>, <<PlainUrl>>, <<TrackedUrl, PlainUrl>>, <<TanitUrl, PlainUrl>>, <<WwrUrl>>,
      <<WwrUrl, TanitUrl>>, <<PlainUrl, PlainUrl>> }

StartCall ==
    \E us \in Batches : \E mj \in {0, 1} : \E rf \in BOOLEAN :
        \E heads \in UNION { [P -> HeadResponses] : P \in SUBSET { u \in RawUrls : Probed(u) } } :
            Start([urls |-> us, max_jobs |-> mj, refresh |-> rf], heads)

CdpFirstStep == \E resp \in CdpResponses : CdpFirstFetch(resp)

WorkerFinishStep == \E u \in RawUrls : \E resp \in HttpResponses : WorkerFinish(u, resp)

CollectStep == \E res \in finished : Collect(res)

FallbackStep == \E resp \in CdpResponses : FallbackFetch(resp)

NextEx ==
    \/ StartCall \/ CdpFirstStep \/ Submit \/ WorkerStart \/ WorkerFinishStep
    \/ CollectStep \/ RecordHttp \/ FallbackStep \/ RecordCount \/ Return

\* calls of extract_text_for_urls on one cache
InitExSpec == InitDB /\ InitConn /\ InitCanonIdle /\ InitExtract /\ RestIdle

SpecEx == InitExSpec /\ [][NextEx]_vars

\* ---------------------------------------------------------------------------
\* Text classification
\* ---------------------------------------------------------------------------
\* the text holds a challenge marker, in whatever casing
HoldsMarker(t) ==
    t.marker \in
        {"just a moment", "Just a moment", "JUST A MOMENT", "Verifying you are human",
         "cloudflare", "Cloudflare", "Access Denied", "blocked", "BLOCKED", "captcha", "CAPTCHA"}

\* C12: text classification is total and ordered: a text holding any challenge marker,
\* in any casing, is blocked whatever its length; otherwise a text shorter than 200
\* characters (199 or less, the empty text included) is empty; otherwise (200 or
\* more) it is ok.
C12_Classification ==
    page_status # "none" =>
        /\ page_status \in {"blocked", "empty", "ok"}
        /\ HoldsMarker(page_text) => page_status = "blocked"
        /\ (~HoldsMarker(page_text) /\ page_text.len <= 199) => page_status = "empty"
        /\ (~HoldsMarker(page_text) /\ page_text.len >= 200) => page_status = "ok"

\* a short text holding a marker in capitals was classified blocked
C12_Witness ==
    /\ page_status = "blocked"
    /\ page_text.marker = "JUST A MOMENT"
    /\ page_text.len < MinTextLen

InitClsSpec == InitDB /\ InitConn /\ InitCanonIdle /\ InitEx /\ InitCls /\ InitSess /\ NavIdle /\ InitScores /\ FetchIdle /\ HttpIdle

NextCls == Classify

\* _classify_text applied to one text
SpecCls == InitClsSpec /\ [][NextCls]_vars

\* ---------------------------------------------------------------------------
\* Claims about the browser session manager
\* ---------------------------------------------------------------------------
GetStep == \E t \in Threads : \E ep \in Endpoints : \E profile \in CallProfiles : GetCall(t, ep, profile)

InvalidateStep == \E t \in Threads : InvalidateCall(t)

AcquireStep == \E t \in Threads : Acquire(t)

GetCheckStep == \E t \in Threads : GetCheck(t)

ConnectStartStep == \E t \in Threads : ConnectStart(t)

ConnectEndStep == \E t \in Threads : \E ok \in BOOLEAN : ConnectEnd(t, ok)

InvalidateCloseStep == \E t \in Threads : InvalidateClose(t)

SessionLostStep == \E b \in 1..Len(sessions) : SessionLost(b)

NextSess ==
    \/ GetStep \/ InvalidateStep \/ AcquireStep \/ GetCheckStep \/ ConnectStartStep
    \/ ConnectEndStep \/ InvalidateCloseStep \/ SessionLostStep

\* threads calling get_cdp_browser and invalidate_cdp_browser in one process
SpecSess == Init /\ [][NextSess]_vars

\* thread t's call is a get_cdp_browser call made right after a get_cdp_browser call
\* that returned a session, no other call overlapping it
AfterGet(t) ==
    /\ alone[t]
    /\ sarg[t].op = "get"
    /\ snap[t].prev.op = "get"
    /\ snap[t].prev.session # NoSession

\* C16: two sequential get_cdp_browser calls with the same endpoint return the same
\* session object and the second makes no connect attempt; a call with a different
\* endpoint closes the previously held session before it connects to the new endpoint.
C16_SessionSingleton ==
    \A t \in Threads : AfterGet(t) =>
        /\ sarg[t].cdp_url = snap[t].prev.cdp_url =>
              /\ connects[t] = 0
              /\ spc[t] = "done" => sres[t] = snap[t].prev.session
        /\ sarg[t].cdp_url \notin {snap[t].prev.cdp_url, ""} =>
              /\ connects[t] > 0 => sessions[snap[t].prev.session].state # "open"
              /\ spc[t] = "done" =>
                    /\ connects[t] > 0
                    /\ sres[t] # snap[t].prev.session
                    /\ sessions[snap[t].prev.session].state # "open"

\* one thread was handed, without a connect attempt, the session the call before had
\* returned for the same endpoint; then the other thread asked for another endpoint
\* and got a new session, the first one being closed
C16_Witness ==
    /\ AfterGet("t2") /\ spc["t2"] = "done"
    /\ sarg["t2"].cdp_url = snap["t2"].prev.cdp_url
    /\ sres["t2"] = 1 /\ connects["t2"] = 0
    /\ AfterGet("t1") /\ spc["t1"] = "done"
    /\ sarg["t1"].cdp_url = "cdp2" /\ snap["t1"].prev.cdp_url = "cdp"
    /\ sres["t1"] = 2 /\ sessions[1].state = "closed"

\* the sessions that were connected and not closed since, nor lost
OpenSessions == { b \in 1..Len(sessions) : sessions[b].state = "open" }

\* the threads inside the block guarded by _LOCK
InLock == { t \in Threads : spc[t] \in {"check", "connect", "connecting", "close"} }

\* the last calls of t and u were get_cdp_browser calls for one endpoint that
\* overlapped, and both have returned
Concurrent(t, u) ==
    /\ t # u
    /\ spc[t] = "done" /\ spc[u] = "done"
    /\ ~alone[t] /\ ~alone[u]
    /\ sarg[t].op = "get" /\ sarg[u].op = "get"
    /\ sarg[t].cdp_url = sarg[u].cdp_url

\* C17: under every interleaving of concurrent get_cdp_browser and
\* invalidate_cdp_browser calls, connection setup is serialized by one lock: at most
\* one thread is inside the lock and at most one connect attempt is in progress at a
\* time, no un-closed session exists besides the one the manager holds, and
\* concurrent callers for the same endpoint end up with the same session, at most
\* one connection being made for them.
C17_SetupSerialized ==
    /\ Cardinality(InLock) <= 1
    /\ InLock \subseteq {LOCK}
    /\ Cardinality({ t \in Threads : spc[t] = "connecting" }) <= 1
    /\ OpenSessions \subseteq {BROWSER}
    /\ \A t \in Threads : \A u \in Threads :
          /\ (Concurrent(t, u) /\ sres[t] # NoSession /\ sres[u] # NoSession) => sres[t] = sres[u]
          /\ (Concurrent(t, u) /\ snap[t].made >= snap[u].made) => Len(sessions) <= snap[t].made + 1
          /\ ( /\ t # u /\ spc[t] = "done" /\ spc[u] = "done"
               /\ sres[t] \in OpenSessions /\ sres[u] \in OpenSessions ) => sres[t] = sres[u]

\* two calls for the same endpoint overlapped: one connection was made and both
\* callers hold the session it gave
C17_Witness ==
    /\ Concurrent("t1", "t2")
    /\ sarg["t1"].cdp_url = "cdp"
    /\ Len(sessions) = 1
    /\ sres["t1"] = 1 /\ sres["t2"] = 1
    /\ BROWSER = 1

\* thread t's call is a get_cdp_browser call for an endpoint, made right after an
\* invalidate_cdp_browser call, no other call overlapping it
AfterInvalidateCall(t) ==
    /\ alone[t]
    /\ sarg[t].op = "get"
    /\ sarg[t].cdp_url # ""
    /\ snap[t].prev.op = "invalidate"

\* C19: invalidate_cdp_browser force-closes and clears the held session, close errors
\* being swallowed: when it has returned and no other call is in progress nothing is
\* held and no session is open; the next get_cdp_browser call, even for the endpoint
\* of the old session, makes a fresh connect attempt and does not return a session
\* that existed before.
C19_InvalidateForcesReconnect ==
    /\ (last.op = "invalidate" /\ \A t \in Threads : ~Inside(t)) =>
          (BROWSER = NoSession /\ CDP_URL = "" /\ OpenSessions = {})
    /\ \A t \in Threads : AfterInvalidateCall(t) =>
          /\ spc[t] \in {"connecting", "done"} => connects[t] >= 1
          /\ spc[t] = "done" => (sres[t] = NoSession \/ sres[t] > snap[t].made)

\* a session for an endpoint was invalidated and the next call for the same endpoint
\* connected again and returned a new session, the old one being closed
C19_Witness ==
    /\ AfterInvalidateCall("t1") /\ spc["t1"] = "done"
    /\ sarg["t1"].cdp_url = "cdp"
    /\ Len(sessions) = 2
    /\ sessions[1] = [endpoint |-> "cdp", state |-> "closed"]
    /\ snap["t1"].made = 1
    /\ connects["t1"] = 1
    /\ sres["t1"] = 2

\* ---------------------------------------------------------------------------
\* Claims about the navigations on the shared browser session
\* ---------------------------------------------------------------------------
TakeJobStep == \E w \in Workers : \E site \in Sites : TakeJob(w, site)

HttpDoneStep == \E w \in Workers : \E text \in BOOLEAN : HttpDone(w, text)

SemAcquireStep == \E w \in Workers : SemAcquire(w)

GetBrowserStep == \E w \in Workers : \E got \in BOOLEAN : GetBrowser(w, got)

NavEndStep == \E w \in Workers : \E ok \in BOOLEAN : NavEnd(w, ok)

NextNav == TakeJobStep \/ HttpDoneStep \/ SemAcquireStep \/ GetBrowserStep \/ NavEndStep

InitNavSpec == InitDB /\ InitConn /\ InitCanonIdle /\ InitEx /\ ClsIdle /\ InitSess /\ InitNav /\ InitScores /\ FetchIdle /\ HttpIdle

\* the two workers of the scoring pool running _score_one, CDP_URL being set
SpecNav == InitNavSpec /\ [][NextNav]_vars

\* the workers that are navigating or extracting on the shared session
Navigating == { w \in Workers : wpc[w] = "nav" }

\* C18: at most one page navigation/extraction that uses the shared browser session
\* is in progress at any time, across the fetchers called from the 2-worker scoring
\* pool: all of them are serialized through one capacity-1 semaphore.
C18_OneNavigation == Cardinality(Navigating) <= 1

\* ---------------------------------------------------------------------------
\* Claims about the score store
\* ---------------------------------------------------------------------------
ScoreCall == \E a \in ScoreArgs : \E nw \in clock..MaxClock : upsert_score(a, nw)

NextScore == ScoreCall

\* sequential calls of upsert_score on one JobScoresDB
SpecScore == Init /\ [][NextScore]_vars

\* exactly one entry per raw URL ever scored, created at the time of the first call
C20_OneEntryPerUrl ==
    /\ \A r1 \in scores : \A r2 \in scores : r1.url = r2.url => r1 = r2
    /\ { row.url : row \in scores } = { u \in ScoreUrls : first_scored[u] # -1 }
    /\ \A row \in scores : row.created_at = first_scored[row.url] /\ row.created_at <= row.updated_at

\* a call leaves, for its URL, the entry holding its score, decision, reasons (as
\* JSON), model and time, created_at being its own time only if the URL had no
\* entry; it leaves every other entry as it was
C20_CallStep ==
    LET a == score_arg'
    IN  /\ \E created \in 0..MaxClock :
              /\ ScoreRows(scores', a.url) =
                    { [url |-> a.url, score |-> a.score, decision |-> a.decision,
                       reasons |-> ReasonsJson(a.reasons), model |-> a.model,
                       created_at |-> created, updated_at |-> a.now] }
              /\ \A row \in ScoreRows(scores, a.url) : row.created_at = created
              /\ ScoreRows(scores, a.url) = {} => created = a.now
        /\ \A row \in scores : row.url # a.url => row \in scores'
        /\ \A row \in scores' : row.url # a.url => row \in scores

\* C20: after any sequence of upsert_score calls the score store holds exactly one
\* entry per raw URL ever scored: the first call for a URL creates it, every later
\* call for that URL overwrites score, decision, reasons, model and updated_at while
\* created_at stays at its first value, and no entry is ever deleted.
C20_ScoreStore == [](C20_OneEntryPerUrl) /\ [][C20_CallStep]_vars

\* a URL was scored twice, at two times and with two models: its entry holds the
\* second score and time and the first creation time
C20_Witness ==
    /\ score_calls = 2
    /\ Cardinality(scores) = 1
    /\ \E row \in scores :
          /\ row.created_at = 0 /\ row.updated_at = 1
          /\ row.model = "m2" /\ row.score = 2
          /\ row.reasons = <<"[", "fit", "]">>
    /\ score_arg.reasons = [list |-> FALSE, items |-> << >>, text |-> "fit"]

\* ---------------------------------------------------------------------------
\* Claims about the retry loop of get_cdp_browser
\* ---------------------------------------------------------------------------
\* thread t's call is a get_cdp_browser call that reached the retry loop
Reconnecting(t) == sarg[t].op = "get" /\ spc[t] \in {"connect", "connecting", "done"} /\ connects[t] > 0

\* the attempts made so far: never more than retries, none after a success, and after
\* the failed attempt number n (from 0) one sleep of backoff_s * 2^n
C21_Attempts ==
    \A t \in Threads : Reconnecting(t) =>
        /\ connects[t] <= sarg[t].profile.retries
        /\ attempt[t] <= connects[t] /\ connects[t] <= attempt[t] + 1
        /\ slept[t] = [n \in 1..attempt[t] |-> 2 ^ (n - 1)]
        /\ spc[t] = "connect" => connects[t] = attempt[t]
        /\ (spc[t] = "done" /\ sres[t] # NoSession) =>
              (connects[t] = attempt[t] + 1 /\ sexc[t] = "none")
        /\ (spc[t] = "done" /\ sres[t] = NoSession) =>
              /\ attempt[t] = sarg[t].profile.retries
              /\ sexc[t] = IF sarg[t].profile.raise_on_fail THEN "RuntimeError" ELSE "none"

\* the step that ends a call whose attempts all failed leaves no session and no
\* endpoint held, and the lock free
C21_FailStep ==
    \A t \in Threads :
        (spc[t] = "connecting" /\ spc'[t] = "done" /\ sres'[t] = NoSession) =>
            (BROWSER' = NoSession /\ CDP_URL' = "" /\ LOCK' = "none")

\* C21: a (re)connecting get_cdp_browser call makes at most retries connect attempts,
\* stops at the first success, and waits backoff_s * 2^attempt after failed attempt
\* number attempt; when all attempts fail it terminates with no session held (both
\* the session and the endpoint cleared) and returns None, or raises RuntimeError
\* when raise_on_fail is set.
C21_BoundedRetries == [](C21_Attempts) /\ [][C21_FailStep]_vars

\* one call with retries=3 failed three times, slept 1, 2 and 4 times backoff_s and
\* returned None; a call with retries=2 and raise_on_fail failed twice and raised
C21_Witness ==
    /\ spc["t1"] = "done" /\ sarg["t1"].op = "get" /\ sarg["t1"].profile.retries = 3
    /\ connects["t1"] = 3 /\ slept["t1"] = <<1, 2, 4>>
    /\ sres["t1"] = NoSession /\ sexc["t1"] = "none"
    /\ spc["t2"] = "done" /\ sarg["t2"].op = "get" /\ sarg["t2"].profile.raise_on_fail
    /\ connects["t2"] = 2 /\ slept["t2"] = <<1, 2>>
    /\ sexc["t2"] = "RuntimeError"
    /\ BROWSER = NoSession /\ CDP_URL = ""

\* ---------------------------------------------------------------------------
\* Claims about the browser fetches of the extraction engine
\* ---------------------------------------------------------------------------
FetchCdpStep == \E site \in FetchSites : FetchCdp(site)

SetupStep == \E ok \in BOOLEAN : Setup(ok)

PageStep == \E end \in PageOutcomes : Page(end)

NextFetch ==
    \/ FetchCdpStep \/ FetchGet \/ FetchGot \/ SetupStep \/ PageStep \/ FetchInvalidate
    \/ FetchInvalidated \/ AcquireStep \/ GetCheckStep \/ ConnectStartStep \/ ConnectEndStep
    \/ InvalidateCloseStep

\* the browser fetches of one extraction thread, one after the other
SpecFetch == Init /\ [][NextFetch]_vars

\* C22: whenever an exception is caught during browser interaction for a URL in the
\* extraction engine (generic or tanitjobs browser path, at any step after the
\* session was acquired), the session manager is invalidated before the next browser
\* fetch, so that the next get_cdp_browser call makes a fresh connection.
C22_InvalidatedAfterException ==
    caught =>
        /\ (fpc = "get" /\ ops = fops) => BROWSER = NoSession
        /\ (fpc = "get" /\ ops = fops + 1 /\ spc[Engine] = "done") => connects[Engine] >= 1

\* ---------------------------------------------------------------------------
\* Claims about the HTTP path
\* ---------------------------------------------------------------------------
InitHttpSpec ==
    InitDB /\ InitConn /\ InitCanonIdle /\ InitEx /\ ClsIdle /\ InitSess /\ NavIdle /\ InitScores
        /\ FetchIdle /\ InitHttp

NextHttp == FetchHttp

\* _fetch_http on every answer
SpecHttp == InitHttpSpec /\ [][NextHttp]_vars

\* C23: on the HTTP path a response with status code 403, 429, 503, 520, 522, 523 or
\* 524 yields status blocked, any other status code >= 400 yields status error, and a
\* request exception yields status error; in all three cases the result text is empty
\* and the response body is not classified.
C23_HttpRefusals ==
    http_res # None =>
        LET refused == {403, 429, 503, 520, 522, 523, 524}
        IN  /\ http_resp.exc => (http_res.status = "error" /\ http_res.text = NoText)
            /\ (~http_resp.exc /\ http_resp.status_code \in refused) =>
                  (http_res.status = "blocked" /\ http_res.text = NoText)
            /\ (~http_resp.exc /\ http_resp.status_code >= 400 /\ http_resp.status_code \notin refused) =>
                  (http_res.status = "error" /\ http_res.text = NoText)
            /\ http_res.method = "http"

\* a 404 whose body is a long challenge page gave status error and no text
C23_Witness ==
    /\ http_res # None
    /\ http_resp = [exc |-> FALSE, status_code |-> 404, text |-> ChallengeText]
    /\ http_res.status = "error"
    /\ http_res.text = NoText

\* ---------------------------------------------------------------------------
\* Claims about the order of the steps of one extraction call
\* ---------------------------------------------------------------------------
\* the events of one kind in the trace of the current call
Events(kind) == { i \in 1..Len(trace) : trace[i].kind = kind }

\* the fetched counter, and the sum of the per-status counters, never exceed the
\* number of cache writes completed in the call
C24_CountedAfterWritten ==
    /\ stats.fetched <= Cardinality(Events("write"))
    /\ stats.ok + stats.blocked + stats.empty + stats.error <= Cardinality(Events("write"))

\* a step that counts a URL finds the entry of that URL's key already written with
\* the result being counted, and writes nothing itself
C24_CountStep ==
    stats' # stats /\ stats'.fetched > 0 =>
        /\ pending # None
        /\ stats' = Counted(stats, pending)
        /\ RowOf(pending) \in cache
        /\ trace[Len(trace)] = Event("write", pending.url)
        /\ cache' = cache

\* C24: within one extract_text_for_urls call, the cache write for a URL completes
\* before that URL is counted in the fetched and per-status counters: at every point
\* of the call the fetched counter never exceeds the number of cache writes completed
\* in that call.
C24_WriteBeforeCount == [](C24_CountedAfterWritten) /\ [][C24_CountStep]_vars

\* the second URL of a call has been written to the cache and is not counted yet
C24_Witness ==
    /\ pending # None
    /\ stats.fetched = 1
    /\ Cardinality(Events("write")) = 2
    /\ RowOf(pending) \in cache

\* ---------------------------------------------------------------------------
\* Claims about the rate limiting of one extraction call
\* ---------------------------------------------------------------------------
\* batches with three HTTP-first URLs, and with a browser-first URL followed by
\* HTTP-first URLs
PoolBatches ==
    { <<PlainUrl, TrackedUrl, WwrUrl>>, <<TanitUrl, PlainUrl>>, <<TanitUrl, PlainUrl, WwrUrl>> }

\* the first call of a process, on an empty cache
StartPool ==
    /\ runs = 0
    /\ \E us \in PoolBatches :
          \E heads \in UNION { [P -> HeadResponses] : P \in SUBSET { u \in RawUrls : Probed(u) } } :
              Start([urls |-> us, max_jobs |-> 0, refresh |-> FALSE], heads)

NextPool ==
    \/ StartPool \/ CdpFirstStep \/ Submit \/ WorkerStart \/ WorkerFinishStep
    \/ CollectStep \/ RecordHttp \/ FallbackStep \/ RecordCount \/ Return

InitPool == InitDB /\ InitConn /\ InitCanonIdle /\ env_cdp_url \in {"", "cdp"} /\ cache = {} /\ ExIdle /\ RestIdle

\* one call of extract_text_for_urls with a batch that fills the pool
SpecPool == InitPool /\ [][NextPool]_vars

\* browser fetches i and j of the trace with no browser fetch between them
ConsecutiveCdp(i, j) ==
    /\ i < j
    /\ trace[i].kind = "cdp" /\ trace[j].kind = "cdp"
    /\ \A k \in (i + 1)..(j - 1) : trace[k].kind # "cdp"

\* at most two HTTP fetches in flight
C25_PoolCap == Cardinality(running) <= 2

\* a browser fetch is made by the calling thread in one of its two loops, while no
\* HTTP fetch is in flight
C25_CdpStep ==
    Cardinality(Events("cdp"))' > Cardinality(Events("cdp")) =>
        /\ Cardinality(Events("cdp"))' = Cardinality(Events("cdp")) + 1
        /\ xpc \in {"cdp_first", "fallback"}
        /\ running = {} /\ started = submitted

\* C25 as stated: within one extract_text_for_urls call, at most two HTTP fetches are
\* in flight at any time, and browser fetches (browser-first and fallback) run
\* strictly one at a time with a delay step between consecutive ones.
C25_DelayBetweenBrowserFetches ==
    /\ [](C25_PoolCap)
    /\ [](\A i \in 1..Len(trace) : \A j \in 1..Len(trace) :
             ConsecutiveCdp(i, j) => \E k \in i..j : trace[k].kind = "sleep")
    /\ [][C25_CdpStep]_vars

\* C25 amended: at most two HTTP fetches are in flight at any time; browser fetches
\* run one at a time on the calling thread while no HTTP fetch is in flight;
\* consecutive browser fetches of one loop (browser-first or fallback) have a delay
\* step between them, while the last browser-first fetch and the first fallback
\* fetch have the HTTP phase between them and not necessarily a delay step.
C25_DelayWithinEachLoop ==
    /\ [](C25_PoolCap)
    /\ [](\A i \in 1..Len(trace) : \A j \in 1..Len(trace) :
             ConsecutiveCdp(i, j) =>
                 \/ \E k \in i..j : trace[k].kind = "sleep"
                 \/ \E k \in i..j : trace[k].kind = "submit")
    /\ [][C25_CdpStep]_vars

\* three HTTP fetches were submitted, so that one waited for a free worker; two of
\* them went on to the fallback loop, whose browser fetches have a sleep between them
C25_Witness ==
    /\ xpc = "return"
    /\ Cardinality(Events("submit")) = 3
    /\ \E i \in 1..Len(trace) : \E j \in 1..Len(trace) :
          /\ ConsecutiveCdp(i, j)
          /\ \E k \in i..j : trace[k].kind = "sleep"
          /\ \A k \in i..j : trace[k].kind # "submit"

\* ---------------------------------------------------------------------------
\* Claims about the candidates of one extraction call
\* ---------------------------------------------------------------------------
\* the cache writes the current call made for the canonical key of u
WritesFor(u) == { i \in Events("write") : canon[trace[i].url] = canon[u] }

\* C26: within one extract_text_for_urls call, input URLs are deduplicated by their
\* canonical form: two input URLs with the same canonical URL (e.g. differing only in
\* tracking parameters) lead to at most one fetch and one cache write for that
\* canonical key.
C26_DedupeByCanonicalUrl ==
    /\ \A i \in 1..Len(urls) : \A j \in 1..Len(urls) : canon[urls[i]] = canon[urls[j]] => i = j
    /\ \A r1 \in net : \A r2 \in net :
          (r1.kind = r2.kind /\ canon[r1.url] = canon[r2.url]) => r1 = r2
    /\ \A u \in RawUrls : Cardinality(WritesFor(u)) <= 1

\* ---------------------------------------------------------------------------
\* Claims about the url of a job record
\* ---------------------------------------------------------------------------
\* the last posting of js that has the key of row
LastSighting(js, row) ==
    js[CHOOSE i \in 1..Len(js) : SameKey(row, js[i]) /\ \A j \in (i + 1)..Len(js) : ~SameKey(row, js[j])]

\* every posting that met a stored row left that row with the posting's url
C27_ConflictOverwritesUrl ==
    outcome = "returned" =>
        \A i \in 1..Len(log) :
            log[i].before # {} => \A r \in log[i].after : r.url = log[i].job.url

\* a call leaves every record it sighted with the url of its last sighting, and
\* every other record as it was
C27_CallStep ==
    (calls' # calls /\ outcome' = "returned") =>
        \A row \in jobs' :
            IF \E i \in 1..Len(arg_jobs') : SameKey(row, arg_jobs'[i])
            THEN row.url = LastSighting(arg_jobs', row).url
            ELSE row \in jobs

\* C27: on every key conflict the stored url is overwritten with the incoming
\* posting's url, so after any sequence of upserts the stored url of a record equals
\* the url of the most recent sighting of its (source, external_id).
C27_UrlFollowsLatestSighting == [](C27_ConflictOverwritesUrl) /\ [][C27_CallStep]_vars

\* a record stored with one url was seen again with another url, which it now holds
C27_Witness ==
    /\ calls = 2
    /\ outcome = "returned"
    /\ Len(log) = 1
    /\ \E b \in log[1].before : \E r \in jobs :
          /\ r.id = b.id
          /\ b.url = "u1" /\ r.url = "u2"
          /\ arg_jobs[1].url = "u2"

\* ---------------------------------------------------------------------------
\* Claims about the counters of one extraction call
\* ---------------------------------------------------------------------------
\* the cache writes the current call made for the raw URL u
RecordsOf(u) == { i \in Events("write") : trace[i].url = u }

\* C28: counter conservation: when extract_text_for_urls returns normally,
\* fetched == candidates == ok + blocked + empty + error, errors == error, every
\* candidate URL has been recorded exactly once, and candidates <= max_jobs whenever
\* max_jobs > 0.
C28_CounterConservation ==
    /\ xpc = "return" =>
          /\ stats.candidates = Len(urls)
          /\ stats.fetched = stats.candidates
          /\ \A i \in 1..Len(urls) : Cardinality(RecordsOf(urls[i])) = 1
          /\ Cardinality(Events("write")) = Len(urls)
    /\ xpc = "done" =>
          /\ ret.candidates = Len(Candidates(before, xarg))
          /\ ret.fetched = ret.candidates
          /\ ret.candidates = ret.ok + ret.blocked + ret.empty + ret.error
          /\ ret.errors = ret.error
          /\ ret.fetched = Cardinality(Events("write"))
          /\ xarg.max_jobs > 0 => ret.candidates <= xarg.max_jobs

\* a call with max_jobs = 1 and two URLs has returned: one candidate, fetched and
\* recorded once, with status error
C28_Witness ==
    /\ xpc = "done"
    /\ xarg.max_jobs = 1
    /\ Len(xarg.urls) = 2 /\ xarg.urls[1] # xarg.urls[2]
    /\ ret.candidates = 1 /\ ret.fetched = 1
    /\ ret.error = 1 /\ ret.errors = 1
    /\ Cardinality(Events("write")) = 1

\* ---------------------------------------------------------------------------
\* Claims about the entries that hold good text
\* ---------------------------------------------------------------------------
\* a cache row with status ok and non-empty text
GoodRow(row) == row.status = "ok" /\ row.text.len > 0

\* a step of a call made with refresh=false leaves every entry that holds good text
\* as it is
C29_GoodRowsStay ==
    ~xarg'.refresh => \A row \in cache : GoodRow(row) => row \in cache'

\* C29: good text is never lost without refresh: once the cache entry of a canonical
\* URL has status ok and non-empty text, no extract_text_for_urls call with
\* refresh=false changes that entry, for any batch of input URLs (including batches
\* with several raw URLs that share that canonical URL).
C29_GoodTextKept == [][C29_GoodRowsStay]_vars

\* ---------------------------------------------------------------------------
\* The pool workers run the fetchers against the session manager: each worker is a
\* thread that enters its fetcher's _CDP_SEM and then calls get_cdp_browser and
\* invalidate_cdp_browser, which take _LOCK
\* ---------------------------------------------------------------------------
\* the thread a pool worker is
ThreadOf(w) == IF w = "w1" THEN "t1" ELSE "t2"

\* how the work on the page ends: the text is returned; an exception is raised before
\* the try block is entered (ctx, page and set_default_timeout in the tanitjobs and
\* linkedin fetchers) and leaves the fetcher; an exception is raised inside the try
\* block and is handled
NavOutcomes == {"text", "escaped", "handled"}

\* browser = get_cdp_browser(cdp_url, ..., retries=3, backoff_s=0.8) inside
\* with _CDP_SEM: the call is made
LiveGet(w) ==
    /\ wpc[w] = "get"
    /\ spc[ThreadOf(w)] = "idle"
    /\ GetCall(ThreadOf(w), "cdp", FetcherProfile)

\* get_cdp_browser has returned: with a session the fetcher works on the page, with
\* None it returns ""
LiveGot(w) ==
    /\ wpc[w] = "get"
    /\ spc[ThreadOf(w)] = "done"
    /\ sarg[ThreadOf(w)].op = "get"
    /\ spc' = [spc EXCEPT ![ThreadOf(w)] = "idle"]
    /\ IF sres[ThreadOf(w)] # NoSession
       THEN wpc' = [wpc EXCEPT ![w] = "nav"] /\ sem' = sem
       ELSE GiveUp(w)
    /\ UNCHANGED <<dbVars, connVars, canonVars, exVars, clsVars, scoreVars, fetchVars, httpVars,
                   BROWSER, CDP_URL, LOCK, sessions, sarg, attempt, sres, connects, ops, last, snap,
                   alone, slept, sexc, wurl, wfetcher, wtry, queue>>

\* the work on the page ends: the text is returned and the semaphore left; or an
\* exception leaves the fetcher and _score_one, the semaphore being left on the way;
\* or the except block is entered
LiveNavEnd(w, end) ==
    /\ wpc[w] = "nav"
    /\ end = "escaped" => wfetcher[w] # "cdp_page_fetch"
    /\ IF end = "handled"
       THEN wpc' = [wpc EXCEPT ![w] = "inv"] /\ sem' = sem
       ELSE /\ sem' = [sem EXCEPT ![SemOf(wfetcher[w])] = "none"]
            /\ wpc' = [wpc EXCEPT ![w] = "done"]
    /\ UNCHANGED <<dbVars, connVars, canonVars, exVars, clsVars, scoreVars, fetchVars, httpVars,
                   sessVars, wurl, wfetcher, wtry, queue>>

\* except Exception: invalidate_cdp_browser() is called
LiveInvalidate(w) ==
    /\ wpc[w] = "inv"
    /\ spc[ThreadOf(w)] = "idle"
    /\ InvalidateCall(ThreadOf(w))

\* invalidate_cdp_browser has returned: the tanitjobs and linkedin fetchers try once
\* more (if attempt == 0: continue), otherwise the fetcher returns ""
LiveInvalidated(w) ==
    /\ wpc[w] = "inv"
    /\ spc[ThreadOf(w)] = "done"
    /\ sarg[ThreadOf(w)].op = "invalidate"
    /\ spc' = [spc EXCEPT ![ThreadOf(w)] = "idle"]
    /\ IF wfetcher[w] # "cdp_page_fetch" /\ wtry[w] = 0
       THEN /\ wtry' = [wtry EXCEPT ![w] = 1]
            /\ wpc' = [wpc EXCEPT ![w] = "get"]
            /\ sem' = sem
       ELSE GiveUp(w) /\ wtry' = wtry
    /\ UNCHANGED <<dbVars, connVars, canonVars, exVars, clsVars, scoreVars, fetchVars, httpVars,
                   BROWSER, CDP_URL, LOCK, sessions, sarg, attempt, sres, connects, ops, last, snap,
                   alone, slept, sexc, wurl, wfetcher, queue>>

\* the steps of one pool worker: _score_one, the fetcher it runs and the session
\* manager calls the fetcher makes
WorkerNext(w) ==
    \/ \E site \in Sites : TakeJob(w, site)
    \/ \E text \in BOOLEAN : HttpDone(w, text)
    \/ SemAcquire(w)
    \/ LiveGet(w)
    \/ Acquire(ThreadOf(w))
    \/ GetCheck(ThreadOf(w))
    \/ ConnectStart(ThreadOf(w))
    \/ \E ok \in BOOLEAN : ConnectEnd(ThreadOf(w), ok)
    \/ LiveGot(w)
    \/ \E end \in NavOutcomes : LiveNavEnd(w, end)
    \/ LiveInvalidate(w)
    \/ InvalidateClose(ThreadOf(w))
    \/ LiveInvalidated(w)

NextLive == \E w \in Workers : WorkerNext(w)

\* every pool thread that can take a step eventually takes one: the threads are
\* scheduled by the operating system, and each connect and page call returns
LiveFairness == \A w \in Workers : WF_vars(WorkerNext(w))

SpecLive == InitNavSpec /\ [][NextLive]_vars /\ LiveFairness

\* worker w is inside a browser fetcher
Fetching(w) == wpc[w] \in {"wait", "get", "nav", "inv"}

\* worker w has left the browser fetcher
Left(w) == wpc[w] \in {"http", "done"}

\* worker w is about to call the session manager and the calls of the behaviour are
\* used up
OutOfCalls(w) == wpc[w] \in {"get", "inv"} /\ spc[ThreadOf(w)] = "idle" /\ ops = MaxOps

\* worker w waits for a semaphore whose holder is out of calls
BehindOutOfCalls(w) ==
    /\ wpc[w] = "wait"
    /\ \E v \in Workers \ {w} : sem[SemOf(wfetcher[w])] = v /\ OutOfCalls(v)

\* a thread is in a session manager call only inside the semaphore of its fetcher
SemaphoreFirst ==
    \A w \in Workers : Inside(ThreadOf(w)) \/ LOCK = ThreadOf(w)
                          => /\ wpc[w] \in {"get", "inv"}
                             /\ sem[SemOf(wfetcher[w])] = w

\* a thread that waits for a semaphore does not hold the lock
NoSemaphoreUnderLock == \A w \in Workers : wpc[w] = "wait" => LOCK # ThreadOf(w)

\* the lock is held only by a thread inside the with _LOCK block of a call
LockReleased == \A t \in Threads : LOCK = t => spc[t] \in {"check", "connect", "connecting", "close"}

\* a worker in a browser fetcher leaves it
Returns == \A w \in Workers : Fetching(w) ~> (Left(w) \/ OutOfCalls(w) \/ BehindOutOfCalls(w))

\* C30: the connection lock and the navigation semaphores cannot deadlock: a fetcher
\* takes its navigation semaphore first and the connection lock second, inside
\* get_cdp_browser or invalidate_cdp_browser; no thread takes a semaphore while it
\* holds the connection lock; the lock is released on every path out of a call; so
\* every thread that calls a browser fetch eventually returns, provided each connect
\* and page call returns.
C30_NoDeadlock ==
    /\ [](SemaphoreFirst /\ NoSemaphoreUnderLock /\ LockReleased)
    /\ Returns

\* both workers are inside the semaphore of their fetcher, one invalidates the
\* session under the lock and the other waits for the lock in get_cdp_browser
C30_Witness ==
    /\ sem["tanitjobs_page_fetch"] = "w1"
    /\ sem["linkedin_page_fetch"] = "w2"
    /\ LOCK = "t1" /\ spc["t1"] = "close"
    /\ spc["t2"] = "lock" /\ sarg["t2"].op = "get"
====
